---- MODULE Spec2Model ----
(***************************************************************************)
(* Peer-a-Boo: the parent-side connection session (initParentStation), the *)
(* motion analyzer (createMotionDetector) and the audio level analyzer     *)
(* (createAudioLevelMeter), as state machines.                             *)
(*                                                                         *)
(* Spec        the parent-side session driven by transport, timer, video   *)
(*             element and user events                                     *)
(* SpecLive    Spec with fair retry-timer firing and a signaling service   *)
(*             that accepts connections                                    *)
(* SpecMotion  one motion analyzer driven by its handle's operations and   *)
(*             by animation frames                                         *)
(* SpecAudio   one audio level analyzer driven by its handle's operations  *)
(*             and by animation frames                                     *)
(***************************************************************************)
EXTENDS Integers, Sequences, FiniteSets, TLC

NULL == 0
STREAM == 1

(***************************************************************************)
(* Bounds of the model: how many objects of each kind can be alive at once.*)
(* An identifier is handed out again once its object is dead and no        *)
(* variable of the session refers to it.                                   *)
(***************************************************************************)
MaxPeers == 2
MaxCalls == 2
MaxTimers == 2
MaxHandles == 2
MaxDummies == 2
MaxPlays == 1

PeerIds == 1..MaxPeers
CallIds == 1..MaxCalls
TimerIds == 1..MaxTimers
HandleIds == 1..MaxHandles
DummyIds == 1..MaxDummies

VARIABLES
    \* ---- closure variables of initParentStation
    peer,                 \* Peer | null
    activeCall,           \* MediaConnection | null
    dummyStream,          \* MediaStream | null
    dummyAudioCtx,        \* AudioContext | null
    remoteStream,         \* MediaStream | null: NULL, or STREAM for a stream a call delivered
    audioMeterHandle,     \* AudioLevelMeterHandle | null
    audioDecayHandle,     \* DecayingMeterHandle | null
    motionDecayHandle,    \* DecayingMeterHandle | null
    motionDetectorHandle, \* MotionDetectorHandle | null
    retryTimeout,         \* timer id | null
    isConnected,
    isCleaningUp,
    \* ---- the objects behind the handles
    peerStatus,           \* PeerIds -> "free" | "connecting" | "open" | "disconnected" | "destroyed"
    callStatus,           \* CallIds -> "free" | "open" | "closed"
    callPeer,             \* CallIds -> the peer the call was placed on
    timers,               \* pending setTimeout registrations: [id, delay]
    dummyLive,            \* placeholder streams whose tracks are not stopped
    ctxOpen,              \* placeholder audio contexts not closed
    inboundLive,          \* the tracks of the inbound stream held last are not stopped
    audioRunning,         \* audio analyzers created and not stopped
    audioDecayRunning,    \* decaying meters (audio) created and not stopped
    motionRunning,        \* motion analyzers started and not stopped
    motionDecayRunning,   \* decaying meters (motion) created and not stopped
    \* ---- DOM
    tapVisible,           \* #tap-to-play lacks the class 'hidden'
    playEventQueued,      \* the video element has a 'play' event to dispatch
    playsFromStream,      \* unsettled videoEl.play() promises of the 'stream' handler
    playsFromTap,         \* unsettled videoEl.play() promises of the tap-to-play handler
    \* ---- history
    last,                 \* the event handled last, with what held before it
    lateEffects,          \* what has been created after cleanup()
    delivering,           \* the call held has emitted 'stream' and since then neither 'close' nor 'error'
    \* ---- Date.now(), in ms
    now,
    \* ---- closure variables of createMotionDetector
    previousFrameData,    \* Uint8ClampedArray | null
    frameCount,
    skipCounter,
    animationId,          \* number | null
    threshold,            \* in hundredths
    paused,
    lastAlertTime,
    isRunning,
    \* ---- the motion analyzer's host and history
    rafQueue,             \* requestAnimationFrame registrations of processFrame
    lastFrame,            \* what the last run of processFrame did
    alertedAt,            \* when onMotionAlert was last invoked, or NULL
    previousImage,        \* the image previousFrameData was taken from, or NoFrame
    framesSince,          \* frames processed since start() or setPaused(true), whichever was last
    pausedSince,          \* setPaused(true) was called since start()
    \* ---- closure variables of createAudioLevelMeter
    alertThreshold,       \* in hundredths
    isPaused,
    meterLastAlertTime,   \* lastAlertTime
    meterAnimationId,     \* animationId: number | null
    useAWeighting,        \* the option of that name
    onLevel,              \* whether the option onLevel is given
    \* ---- the audio analyzer's host and history
    meterState,           \* "none" | "suspended" | "running": the AudioContext at creation
    meterStopped,         \* stop() was called
    sourceDisconnects,    \* calls of source.disconnect()
    contextCloses,        \* calls of audioContext.close()
    meterQueue,           \* requestAnimationFrame registrations of update
    lastUpdate,           \* what the last run of update did
    meterAlertedAt,       \* when onAlert was last invoked, or NULL
    pauseTrail,           \* "none" | "paused" | "silenced" | "resumed": see trailAfterUpdate
    \* ---- a pair of frames of the default sample size, the second with a white block
    blockAt,              \* [x, y]: the block's top left corner
    asked,                \* the argument of setThreshold, in hundredths
    blockSeen,            \* what setThreshold and processFrame did with the pair
    \* ---- a pair of spectra and the levels update computes for them
    spectrumA,
    spectrumB,
    levelSeen,
    \* ---- closure variables of createDecayingMeter; levels in units of 1/decayResistance
    currentLevel,
    lastPeakTime,
    intervalId,           \* the setInterval timer, or NULL
    \* ---- the decaying meter's element and history
    shownLevel,           \* the level applyLevel has put on the element
    lastDecay,            \* what the last update or background tick did
    raisedAt,             \* when update last raised the level, or NULL
    peak,                 \* the level update last raised the meter to
    decayTicks,           \* background ticks past the sustain period since then
    timerLive,            \* the setInterval timer is active
    timerClears,          \* calls of clearInterval
    decayStops,           \* calls of the meter's stop()
    \* ---- the page: module variables of main.ts and the stations it has started
    currentCleanup,       \* CleanupHandle | null: the station whose handle is held
    stations,             \* per station: how far its initialisation got, and its kind
    selectionVisible,     \* the landing view with the role buttons is shown
    \* ---- the answering station: closure variables of initBabyStation and its calls
    babyActiveCall,       \* activeCall: MediaConnection | null
    babyCalls,            \* per inbound call: its status and its handler's callClosed
    qrSectionOpen,        \* the QR section is open
    babyPhase,            \* how far initBabyStation's try block got, or "failed"
    babyStatus,           \* the status element's text
    babyPeer,             \* "none" | "created" | "open" | "destroyed": the Peer
    babyStream,           \* "none" | "live" | "stopped": the stream held
    mediaRequests,        \* calls of getUserMedia
    switchRequests,       \* 'change' events of the camera and microphone selects
    pendingSwitches,      \* calls of startStream by those events that are not settled
    deviceChangeHandler,  \* the 'devicechange' listener is registered
    mediaFailed,          \* the first getUserMedia was rejected
    babyCleaned,          \* the handle's cleanup() has run
    \* ---- requestWakeLock: its closure variable, the sentinels and the document
    wakeLock,             \* wakeLock: WakeLockSentinel | null
    sentinels,            \* per sentinel: "free" | "held" | "released", and the handle's releases
    visibilityListener,   \* handleVisibilityChange is registered
    documentVisible,      \* document.visibilityState === 'visible'
    wakeRequests,         \* calls of navigator.wakeLock.request that are not settled
    releasePhase,         \* "none" | "awaiting" | "done": how far release() got
    latestSentinel,       \* the sentinel acquired last
    lateRequests,         \* requests made by visibility changes after release() was called
    \* ---- the monitoring station's pause controls, toasts and their timers
    pauseCryingChecked,   \* pauseCryingCheckbox.checked
    pauseSquirmingChecked,\* pauseSquirmingCheckbox.checked
    cryingAnalyzer,       \* "none" | "running" | "paused": the analyzer in audioMeterHandle
    squirmingAnalyzer,    \* "none" | "running" | "paused": the analyzer in motionDetectorHandle
    cryingToastVisible,   \* cryingToastEl has the class 'visible'
    squirmingToastVisible,\* squirmingToastEl has the class 'visible'
    videoAlert,           \* videoContainer has the class 'video-alert'
    cryingAlertTimeout,   \* the deadline of the timer set last by showCryingAlert, or NULL
    squirmingAlertTimeout,\* the deadline of the timer set last by showSquirmingAlert, or NULL
    cryingTimers,         \* deadlines of the pending timers of showCryingAlert
    squirmingTimers,      \* deadlines of the pending timers of showSquirmingAlert
    cryingAlertAt,        \* when showCryingAlert last ran, or NULL
    squirmingAlertAt,     \* when showSquirmingAlert last ran, or NULL
    panelLast,            \* the last event of the controls and the toasts
    babyLast              \* the last event of a call and the call held before it

sessVars == <<peer, activeCall, dummyStream, dummyAudioCtx, remoteStream,
              audioMeterHandle, audioDecayHandle, motionDecayHandle,
              motionDetectorHandle, retryTimeout, isConnected, isCleaningUp,
              peerStatus, callStatus, callPeer, timers, dummyLive, ctxOpen,
              inboundLive, audioRunning, audioDecayRunning, motionRunning,
              motionDecayRunning, tapVisible, playEventQueued, playsFromStream,
              playsFromTap, last, lateEffects, delivering>>

motionVars == <<previousFrameData, frameCount, skipCounter, animationId, threshold,
                paused, lastAlertTime, isRunning, rafQueue, lastFrame, alertedAt,
                previousImage, framesSince, pausedSince>>

meterVars == <<alertThreshold, isPaused, meterLastAlertTime, meterAnimationId,
               meterState, meterStopped, meterQueue, lastUpdate, meterAlertedAt,
               pauseTrail, useAWeighting, onLevel, sourceDisconnects, contextCloses>>

blockVars == <<blockAt, asked, blockSeen>>

levelVars == <<spectrumA, spectrumB, levelSeen>>

decayVars == <<currentLevel, lastPeakTime, intervalId, shownLevel, lastDecay, raisedAt,
               peak, decayTicks, timerLive, timerClears, decayStops>>

viewVars == <<currentCleanup, stations, selectionVisible>>

babyVars == <<babyActiveCall, babyCalls, qrSectionOpen, babyLast, babyPhase, babyStatus,
              babyPeer, babyStream, mediaRequests, switchRequests, pendingSwitches,
              deviceChangeHandler, mediaFailed, babyCleaned>>

wakeVars == <<wakeLock, sentinels, visibilityListener, documentVisible, wakeRequests,
              releasePhase, latestSentinel, lateRequests>>

panelVars == <<pauseCryingChecked, pauseSquirmingChecked, cryingAnalyzer,
               squirmingAnalyzer, cryingToastVisible, squirmingToastVisible, videoAlert,
               cryingAlertTimeout, squirmingAlertTimeout, cryingTimers, squirmingTimers,
               cryingAlertAt, squirmingAlertAt, panelLast>>

sideVars == <<wakeVars, panelVars>>

pageVars == <<viewVars, babyVars, sideVars>>

vars == <<sessVars, now, motionVars, meterVars, blockVars, levelVars, decayVars, pageVars>>

----------------------------------------------------------------------------
(* The session state as one record, so that handlers compose as functions. *)

S == [peer |-> peer, activeCall |-> activeCall, dummyStream |-> dummyStream,
      dummyAudioCtx |-> dummyAudioCtx, remoteStream |-> remoteStream,
      audioMeterHandle |-> audioMeterHandle, audioDecayHandle |-> audioDecayHandle,
      motionDecayHandle |-> motionDecayHandle,
      motionDetectorHandle |-> motionDetectorHandle,
      retryTimeout |-> retryTimeout, isConnected |-> isConnected,
      isCleaningUp |-> isCleaningUp, peerStatus |-> peerStatus,
      callStatus |-> callStatus, callPeer |-> callPeer, timers |-> timers,
      dummyLive |-> dummyLive, ctxOpen |-> ctxOpen, inboundLive |-> inboundLive,
      audioRunning |-> audioRunning, audioDecayRunning |-> audioDecayRunning,
      motionRunning |-> motionRunning, motionDecayRunning |-> motionDecayRunning,
      tapVisible |-> tapVisible, playEventQueued |-> playEventQueued,
      playsFromStream |-> playsFromStream, playsFromTap |-> playsFromTap,
      lateEffects |-> lateEffects, delivering |-> delivering,
      stale |-> FALSE,    \* this handler run served 'close' or 'error' of a call that is
                          \* not the call held, while the call held was delivering
      placed |-> FALSE,   \* this handler run placed a call
      replaced |-> FALSE, \* this handler run created an analyzer in place of one held
      created |-> FALSE,  \* this handler run created a placeholder stream
      early |-> FALSE,    \* this handler run stopped inbound tracks under a running analyzer
      ok |-> TRUE]        \* no identifier space was exhausted

Smallest(ids) == CHOOSE i \in ids : \A j \in ids : i <= j

Late(s, what) == IF s.isCleaningUp THEN s.lateEffects \cup {what} ELSE s.lateEffects

TimerIdsOf(ts) == {t.id : t \in ts}

----------------------------------------------------------------------------
(***************************************************************************)
(* IEEE-754 double arithmetic, as far as getNextDelay needs it.  A         *)
(* non-negative number is counted in units of 2^-FracBits and written in   *)
(* limbs of LimbBits bits, least significant first (TLC's integers have 32 *)
(* bits).  A double keeps DoublePrecision significant bits; products and   *)
(* sums are rounded to nearest, ties to even.                              *)
(***************************************************************************)
DoublePrecision == 53
FracBits == 54
LimbBits == 14
LimbBase == 2^LimbBits
Limbs == 0..4
TopLimb == 4

\* the limbs of a number given by limb values that may exceed LimbBase
RECURSIVE CarryInto(_, _)
CarryInto(raw, i) ==
    IF i = 0 THEN 0 ELSE (raw[i - 1] + CarryInto(raw, i - 1)) \div LimbBase

Normalize(raw) == [i \in Limbs |-> (raw[i] + CarryInto(raw, i)) % LimbBase]

LimbsAdd(a, b) == Normalize([i \in Limbs |-> a[i] + b[i]])

\* a * n, for n < 2^16
LimbsMul(a, n) == Normalize([i \in Limbs |-> a[i] * n])

\* a / 2, for an even a
LimbsHalf(a) ==
    [i \in Limbs |-> (a[i] \div 2)
                     + (IF i < TopLimb THEN (a[i + 1] % 2) * (LimbBase \div 2) ELSE 0)]

LimbsLess(a, b) ==
    \E i \in Limbs : a[i] < b[i] /\ \A j \in Limbs : j > i => a[j] = b[j]

LimbsLeq(a, b) == a = b \/ LimbsLess(a, b)

Bit(a, k) == (a[k \div LimbBits] \div 2^(k % LimbBits)) % 2

\* the number of significant bits of a
BitLength(a) ==
    IF \A k \in 0..(LimbBits * (TopLimb + 1) - 1) : Bit(a, k) = 0 THEN 0
    ELSE 1 + CHOOSE k \in 0..(LimbBits * (TopLimb + 1) - 1) :
                 /\ Bit(a, k) = 1
                 /\ \A j \in (k + 1)..(LimbBits * (TopLimb + 1) - 1) : Bit(a, j) = 0

\* a with its low k bits cleared
ClearLow(a, k) ==
    [i \in Limbs |->
        IF LimbBits * (i + 1) <= k THEN 0
        ELSE IF LimbBits * i >= k THEN a[i]
        ELSE (a[i] \div 2^(k - LimbBits * i)) * 2^(k - LimbBits * i)]

\* 2^k in limbs
PowerOfTwo(k) == [i \in Limbs |-> IF i = k \div LimbBits THEN 2^(k % LimbBits) ELSE 0]

\* the double nearest to the exact value a: round to nearest, ties to even
RoundDouble(a) ==
    LET len == BitLength(a)
        drop == len - DoublePrecision
    IN  IF drop <= 0 THEN a
        ELSE LET half == Bit(a, drop - 1) = 1
                 sticky == \E k \in 0..(drop - 2) : Bit(a, k) = 1
                 odd == Bit(a, drop) = 1
                 kept == ClearLow(a, drop)
             IN  IF half /\ (sticky \/ odd) THEN LimbsAdd(kept, PowerOfTwo(drop))
                 ELSE kept

\* the double with the integer value n, n < 2^16
DoubleOfNat(n) == LimbsMul(PowerOfTwo(FracBits), n)

\* the double 1 - j * 2^-FracBits, for an even j with 0 < j < LimbBase
DoubleBelowOne(j) ==
    [i \in Limbs |->
        IF i = 0 THEN LimbBase - j
        ELSE IF LimbBits * (i + 1) <= FracBits THEN LimbBase - 1
        ELSE IF LimbBits * i < FracBits THEN 2^(FracBits - LimbBits * i) - 1
        ELSE 0]

(***************************************************************************)
(* Math.random(): a double in [0, 1).  The values drawn are 0 and the two  *)
(* largest values among the multiples of 2^-52 (what V8 draws): 1 - 2^-51  *)
(* and 1 - 2^-52.                                                          *)
(***************************************************************************)
RandomValues ==
    { [i \in Limbs |-> 0],
      DoubleBelowOne(8),
      DoubleBelowOne(4) }

minDelay == 5000

\* getNextDelay with randomFactor 1
getNextDelayWholeFactor(r) ==
    RoundDouble(LimbsAdd(DoubleOfNat(minDelay), RoundDouble(LimbsMul(r, minDelay))))

\* return minDelay + Math.random() * randomFactor * minDelay, randomFactor = 0.5:
\* evaluated left to right, r * 0.5 is exact, the product and the sum are rounded
getNextDelay(r) ==
    RoundDouble(LimbsAdd(DoubleOfNat(minDelay),
                         RoundDouble(LimbsMul(LimbsHalf(r), minDelay))))

\* getNextDelay() for each value Math.random() may return, evaluated once
NextDelay == [r \in RandomValues |-> getNextDelay(r)]

----------------------------------------------------------------------------
(***************************************************************************)
(* The session: src/unnamed/part_008, initParentStation.                   *)
(***************************************************************************)

\* clearTimeout(id): a no-op for an id that is not pending
clearTimeout(s, id) == [s EXCEPT !.timers = {t \in s.timers : t.id # id}]

\* retryTimeout = setTimeout(attemptCall, delay)
setRetryTimeout(s, delay) ==
    IF TimerIds \ TimerIdsOf(s.timers) = {} THEN [s EXCEPT !.ok = FALSE]
    ELSE [s EXCEPT !.timers = @ \cup {[id |-> Smallest(TimerIds \ TimerIdsOf(s.timers)),
                                       delay |-> delay]},
                   !.retryTimeout = Smallest(TimerIds \ TimerIdsOf(s.timers)),
                   !.lateEffects = Late(s, "timer")]

\* scheduleRetry without its clearTimeout
scheduleRetryKeepsPending(s, r) ==
    IF s.isCleaningUp THEN s ELSE setRetryTimeout(s, NextDelay[r])

scheduleRetry(s, r) ==
    IF s.isCleaningUp THEN s
    ELSE setRetryTimeout(IF s.retryTimeout # NULL THEN clearTimeout(s, s.retryTimeout)
                         ELSE s,
                         NextDelay[r])

\* activeCall.on('close') and activeCall.on('error')
onCallClose(s, r) == scheduleRetry([s EXCEPT !.isConnected = FALSE], r)

\* the 'error' handler without its scheduleRetry
onCallErrorGivesUp(s, r) == [s EXCEPT !.isConnected = FALSE]

onCallError(s, r) == scheduleRetry([s EXCEPT !.isConnected = FALSE], r)

\* peer.on('disconnected')
onPeerDisconnected(s, r) == IF ~s.isConnected THEN scheduleRetry(s, r) ELSE s

\* peer.on('error')
onPeerError(s, r) == scheduleRetry(s, r)

OpenCallsOf(s, p) == {c \in CallIds : s.callStatus[c] = "open" /\ s.callPeer[c] = p}

\* MediaConnection.close(): closes the call and emits 'close'; every call the
\* session holds was placed by attemptCall and carries its 'close' handler
LibCallClose(s, c, r) ==
    IF s.callStatus[c] # "open" THEN s
    ELSE onCallClose([s EXCEPT !.callStatus[c] = "closed",
                               !.delivering = @ /\ c # s.activeCall], r)

\* Peer.destroy(): disconnects (emitting 'disconnected' unless the peer is
\* disconnected already) and closes the peer's calls (each emitting 'close';
\* the 'close' handler run twice leaves what it leaves when run once)
\* the calls cs are closed, each emitting 'close'
LibCloseCalls(s, cs, r) ==
    IF cs = {} THEN s
    ELSE onCallClose([s EXCEPT !.callStatus = [c \in CallIds |->
                                   IF c \in cs THEN "closed" ELSE @[c]],
                               !.delivering = @ /\ s.activeCall \notin cs], r)

LibPeerDestroy(s, p, r) ==
    IF s.peerStatus[p] \in {"free", "destroyed"} THEN s
    ELSE LibCloseCalls(IF s.peerStatus[p] # "disconnected"
                       THEN onPeerDisconnected([s EXCEPT !.peerStatus[p] = "destroyed"], r)
                       ELSE [s EXCEPT !.peerStatus[p] = "destroyed"],
                       OpenCallsOf(s, p), r)

\* peer = new Peer(), the new handle being p
newPeerAs(s, p) ==
    [s EXCEPT !.peer = p, !.peerStatus[p] = "connecting", !.lateEffects = Late(s, "peer")]

\* the handle in the variable peer is overwritten: its identifier is free
newPeer(s) ==
    IF \A p \in PeerIds : s.peerStatus[p] # "free" /\ p # s.peer
    THEN [s EXCEPT !.ok = FALSE]
    ELSE newPeerAs(s, Smallest({p \in PeerIds : s.peerStatus[p] = "free" \/ p = s.peer}))

initPeer(s, r) == newPeer(IF s.peer # NULL THEN LibPeerDestroy(s, s.peer, r) ELSE s)

stopDummyStreamKeepsTracks(s) == s

\* stopMediaStream(dummyStream)
stopDummyStream(s) ==
    IF s.dummyStream # NULL THEN [s EXCEPT !.dummyLive = @ \ {s.dummyStream}] ELSE s

\* createDummyStream without dummyAudioCtx.close()
closeDummyAudioCtxSkipped(s) == s

\* dummyAudioCtx.close() of the context held
closeDummyAudioCtx(s) ==
    IF s.dummyAudioCtx # NULL THEN [s EXCEPT !.ctxOpen = @ \ {s.dummyAudioCtx}] ELSE s

newDummyStream(s) ==
    IF DummyIds \ s.ctxOpen = {} \/ DummyIds \ s.dummyLive = {}
    THEN [s EXCEPT !.ok = FALSE]
    ELSE [s EXCEPT !.dummyAudioCtx = Smallest(DummyIds \ s.ctxOpen),
                   !.ctxOpen = @ \cup {Smallest(DummyIds \ s.ctxOpen)},
                   !.dummyStream = Smallest(DummyIds \ s.dummyLive),
                   !.dummyLive = @ \cup {Smallest(DummyIds \ s.dummyLive)},
                   !.created = TRUE]

createDummyStream(s) == newDummyStream(stopDummyStream(closeDummyAudioCtx(s)))

\* activeCall = peer.call(roomId, stream), the new call being c
placeCallAs(s, c) ==
    [s EXCEPT !.activeCall = c, !.callStatus[c] = "open", !.callPeer[c] = s.peer,
              !.delivering = FALSE,
              !.placed = TRUE, !.lateEffects = Late(s, "call")]

placeCall(s) ==
    IF \A c \in CallIds : s.callStatus[c] # "free" THEN [s EXCEPT !.ok = FALSE]
    ELSE placeCallAs(s, Smallest({c \in CallIds : s.callStatus[c] = "free"}))

\* attemptCall without its test of peer.open
attemptCallUnopened(s, r) ==
    IF s.peer = NULL \/ s.peerStatus[s.peer] = "destroyed" THEN initPeer(s, r)
    ELSE placeCall(createDummyStream(s))

attemptCall(s, r) ==
    IF s.peer = NULL \/ s.peerStatus[s.peer] = "destroyed" THEN initPeer(s, r)
    ELSE IF s.peerStatus[s.peer] # "open" THEN scheduleRetry(s, r)
    ELSE placeCall(createDummyStream(s))

\* peer.on('open')
onPeerOpen(s, r) == attemptCall(s, r)

\* videoEl.play(): starts is whether playback begins (the element was paused
\* and may play), which queues a 'play' event
playVideo(s, starts) == [s EXCEPT !.playEventQueued = @ \/ starts]

\* startAudioMeter without the two stop() calls
stopAudioHandlesSkipped(s) == s

\* audioMeterHandle.stop() and audioDecayHandle.stop() of the handles held
stopAudioHandles(s) ==
    [s EXCEPT !.audioRunning = IF s.audioMeterHandle # NULL
                               THEN @ \ {s.audioMeterHandle} ELSE @,
              !.audioDecayRunning = IF s.audioDecayHandle # NULL
                                    THEN @ \ {s.audioDecayHandle} ELSE @]

\* createDecayingMeter and createAudioLevelMeter
newAudioHandles(s) ==
    IF HandleIds \ s.audioDecayRunning = {} \/ HandleIds \ s.audioRunning = {}
    THEN [s EXCEPT !.ok = FALSE]
    ELSE [s EXCEPT !.audioDecayHandle = Smallest(HandleIds \ s.audioDecayRunning),
                   !.audioDecayRunning = @ \cup {Smallest(HandleIds \ s.audioDecayRunning)},
                   !.audioMeterHandle = Smallest(HandleIds \ s.audioRunning),
                   !.audioRunning = @ \cup {Smallest(HandleIds \ s.audioRunning)},
                   !.replaced = @ \/ s.audioMeterHandle # NULL,
                   !.lateEffects = Late(s, "audio")]

\* hasAudio is remoteStream.getAudioTracks().length > 0
startAudioMeter(s, hasAudio) ==
    IF s.remoteStream = NULL THEN s
    ELSE IF ~hasAudio THEN s
    ELSE newAudioHandles(stopAudioHandles(s))

\* motionDetectorHandle.stop() and motionDecayHandle.stop() of the handles held
stopMotionHandles(s) ==
    [s EXCEPT !.motionRunning = IF s.motionDetectorHandle # NULL
                                THEN @ \ {s.motionDetectorHandle} ELSE @,
              !.motionDecayRunning = IF s.motionDecayHandle # NULL
                                     THEN @ \ {s.motionDecayHandle} ELSE @]

\* createDecayingMeter, createMotionDetector, setThreshold and start
newMotionHandles(s) ==
    IF HandleIds \ s.motionDecayRunning = {} \/ HandleIds \ s.motionRunning = {}
    THEN [s EXCEPT !.ok = FALSE]
    ELSE [s EXCEPT !.motionDecayHandle = Smallest(HandleIds \ s.motionDecayRunning),
                   !.motionDecayRunning = @ \cup {Smallest(HandleIds \ s.motionDecayRunning)},
                   !.motionDetectorHandle = Smallest(HandleIds \ s.motionRunning),
                   !.motionRunning = @ \cup {Smallest(HandleIds \ s.motionRunning)},
                   !.replaced = @ \/ s.motionDetectorHandle # NULL,
                   !.lateEffects = Late(s, "motion")]

setupMotionDetection(s) == newMotionHandles(stopMotionHandles(s))

\* a videoEl.play() promise is created
newPlay(s, fromTap) ==
    IF s.playsFromStream + s.playsFromTap >= MaxPlays THEN [s EXCEPT !.ok = FALSE]
    ELSE IF fromTap THEN [s EXCEPT !.playsFromTap = @ + 1]
    ELSE [s EXCEPT !.playsFromStream = @ + 1]

\* activeCall.on('stream')
onCallStream(s, c, starts) ==
    newPlay(playVideo([s EXCEPT !.isConnected = TRUE,
                                !.delivering = @ \/ c = s.activeCall,
                                !.remoteStream = STREAM,
                                !.inboundLive = TRUE], starts), FALSE)

\* .then() of either videoEl.play()
onPlayResolved(s, hasAudio) == startAudioMeter([s EXCEPT !.tapVisible = FALSE], hasAudio)

\* .catch() of the 'stream' handler's videoEl.play()
onPlayRejected(s) == [s EXCEPT !.tapVisible = TRUE]

\* tapToPlayEl.addEventListener('click')
onTapToPlay(s, starts) == newPlay(playVideo(s, starts), TRUE)

\* videoEl.addEventListener('play')
onVideoPlay(s) == IF s.motionDetectorHandle = NULL THEN setupMotionDetection(s) ELSE s

\* cleanup, up to the motion and audio handles
cleanupHandles(s) ==
    [s EXCEPT !.isCleaningUp = TRUE,
              !.timers = IF s.retryTimeout # NULL
                         THEN clearTimeout(s, s.retryTimeout).timers ELSE @,
              !.retryTimeout = NULL,
              !.motionRunning = IF s.motionDetectorHandle # NULL
                                THEN @ \ {s.motionDetectorHandle} ELSE @,
              !.motionDetectorHandle = NULL,
              !.audioRunning = IF s.audioMeterHandle # NULL
                               THEN @ \ {s.audioMeterHandle} ELSE @,
              !.audioMeterHandle = NULL,
              !.audioDecayRunning = IF s.audioDecayHandle # NULL
                                    THEN @ \ {s.audioDecayHandle} ELSE @,
              !.audioDecayHandle = NULL,
              !.motionDecayRunning = IF s.motionDecayHandle # NULL
                                     THEN @ \ {s.motionDecayHandle} ELSE @,
              !.motionDecayHandle = NULL]

\* if (activeCall) { activeCall.close(); activeCall = null; }
cleanupCall(s, r) ==
    IF s.activeCall # NULL
    THEN [LibCallClose(s, s.activeCall, r) EXCEPT !.activeCall = NULL,
                                                  !.delivering = FALSE]
    ELSE s

\* if (peer) { peer.destroy(); peer = null; }
cleanupPeer(s, r) ==
    IF s.peer # NULL THEN [LibPeerDestroy(s, s.peer, r) EXCEPT !.peer = NULL] ELSE s

AnalyzerRunning(s) == s.audioRunning # {} \/ s.motionRunning # {}

\* cleanup, from stopMediaStream(dummyStream) on
cleanupStreams(s) ==
    [s EXCEPT !.dummyStream = NULL,
              !.dummyAudioCtx = NULL,
              !.ctxOpen = IF s.dummyAudioCtx # NULL THEN @ \ {s.dummyAudioCtx} ELSE @,
              !.inboundLive = IF s.remoteStream # NULL THEN FALSE ELSE @,
              !.early = @ \/ (s.remoteStream # NULL /\ s.inboundLive /\ AnalyzerRunning(s)),
              !.remoteStream = NULL]

\* cleanup with isCleaningUp = true as its last statement
cleanupFlagsLast(s, r) ==
    [cleanupStreams(stopDummyStream(cleanupPeer(cleanupCall(
         [cleanupHandles(s) EXCEPT !.isCleaningUp = s.isCleaningUp], r), r)))
     EXCEPT !.isCleaningUp = TRUE]

\* cleanup with the streams released before the handles are stopped
cleanupStreamsFirst(s, r) ==
    cleanupPeer(cleanupCall(cleanupHandles(cleanupStreams(stopDummyStream(
        [s EXCEPT !.isCleaningUp = TRUE]))), r), r)

cleanup(s, r) ==
    cleanupStreams(stopDummyStream(cleanupPeer(cleanupCall(cleanupHandles(s), r), r)))

----------------------------------------------------------------------------
(***************************************************************************)
(* Identifiers carry no meaning but identity.  After every step the dead   *)
(* objects that no variable refers to are dropped, and the peers and calls *)
(* are renamed so that the state does not depend on the order in which the *)
(* identifiers were handed out: the handle held in peer is peer 1, the     *)
(* call held in activeCall is call 1, the other non-closed calls follow.   *)
(* A peer is destroyed before the variable peer is overwritten, and        *)
(* Peer.destroy() closes the peer's calls, so every non-closed call is a   *)
(* call of the peer that is held.                                          *)
(***************************************************************************)
Collect(s) ==
    LET held == IF s.activeCall # NULL THEN 1 ELSE 0
        others == Cardinality({c \in CallIds :
                                  s.callStatus[c] = "open" /\ c # s.activeCall})
        calls == [c \in CallIds |->
                     IF c <= held THEN s.callStatus[s.activeCall]
                     ELSE IF c <= held + others THEN "open" ELSE "free"]
    IN  [s EXCEPT !.peer = IF s.peer # NULL THEN 1 ELSE NULL,
                  !.peerStatus = [p \in PeerIds |->
                      IF p = 1 /\ s.peer # NULL THEN s.peerStatus[s.peer] ELSE "free"],
                  !.activeCall = IF s.activeCall # NULL THEN 1 ELSE NULL,
                  !.callStatus = calls,
                  !.callPeer = [c \in CallIds |-> IF calls[c] = "open" THEN 1 ELSE NULL]]

\* The events that the history tells apart.
Tracked == {"peerDisconnected", "callClose", "callError", "retryTimer", "cleanup"}

Commit(t, ev) ==
    \E u \in {Collect(t)} :
        /\ u.ok
        /\ peer' = u.peer
        /\ activeCall' = u.activeCall
        /\ dummyStream' = u.dummyStream
        /\ dummyAudioCtx' = u.dummyAudioCtx
        /\ remoteStream' = u.remoteStream
        /\ audioMeterHandle' = u.audioMeterHandle
        /\ audioDecayHandle' = u.audioDecayHandle
        /\ motionDecayHandle' = u.motionDecayHandle
        /\ motionDetectorHandle' = u.motionDetectorHandle
        /\ retryTimeout' = u.retryTimeout
        /\ isConnected' = u.isConnected
        /\ isCleaningUp' = u.isCleaningUp
        /\ peerStatus' = u.peerStatus
        /\ callStatus' = u.callStatus
        /\ callPeer' = u.callPeer
        /\ timers' = u.timers
        /\ dummyLive' = u.dummyLive
        /\ ctxOpen' = u.ctxOpen
        /\ inboundLive' = u.inboundLive
        /\ audioRunning' = u.audioRunning
        /\ audioDecayRunning' = u.audioDecayRunning
        /\ motionRunning' = u.motionRunning
        /\ motionDecayRunning' = u.motionDecayRunning
        /\ tapVisible' = u.tapVisible
        /\ playEventQueued' = u.playEventQueued
        /\ playsFromStream' = u.playsFromStream
        /\ playsFromTap' = u.playsFromTap
        /\ lateEffects' = u.lateEffects
        /\ delivering' = u.delivering
        /\ last' = [ev |-> IF ev \in Tracked THEN ev ELSE "other",
                    wasConnected |-> ev \in Tracked /\ isConnected,
                    hadTimer |-> ev \in Tracked /\ timers # {},
                    hadAnalyzers |-> ev \in Tracked /\ motionRunning # {}
                                     /\ audioRunning # {},
                    placed |-> u.placed,
                    replaced |-> u.replaced,
                    created |-> u.created,
                    early |-> u.early,
                    stale |-> u.stale,
                    again |-> ev = "cleanup" /\ last.ev = "cleanup"]
        /\ UNCHANGED <<now, motionVars, meterVars, blockVars, levelVars, decayVars, pageVars>>

----------------------------------------------------------------------------
(***************************************************************************)
(* The clock.  Date.now() counts the milliseconds since 1970: it is far    *)
(* beyond any cooldown when an analyzer is created.  The model follows it  *)
(* for ClockSpan milliseconds; an animation frame comes at least one and   *)
(* at most MaxStep milliseconds after the step before it.                  *)
(***************************************************************************)
ClockStart == 10
ClockSpan == 10
MaxStep == 5
MaxClock == ClockStart + ClockSpan
Steps == 1..MaxStep

MaxFrameIds == 2
FrameIds == 1..MaxFrameIds

(***************************************************************************)
(* The motion analyzer: src/src/motion-detection.ts, createMotionDetector. *)
(* cfg is the configuration the analyzer is created with (DEFAULT_CONFIG   *)
(* is 160 x 120, frameSkip 2, stabilizationFrames 10, alertCooldownMs      *)
(* 2000, each of which the caller may override).                           *)
(***************************************************************************)
SampleWidth == 3
SampleHeight == 3
FrameSkip == 1
StabilizationFrames == 1
MotionCooldownMs == 5

cfg == [sampleWidth |-> SampleWidth, sampleHeight |-> SampleHeight,
        frameSkip |-> FrameSkip, stabilizationFrames |-> StabilizationFrames,
        alertCooldownMs |-> MotionCooldownMs]

Pixels == 0..(cfg.sampleWidth * cfg.sampleHeight - 1)

\* ctx.getImageData(): one RGB triple per pixel (alpha is not read)
Black == [r |-> 0, g |-> 0, b |-> 0]
White == [r |-> 255, g |-> 255, b |-> 255]
Red == [r |-> 255, g |-> 0, b |-> 0]
FrameDark == [i \in Pixels |-> Black]
FrameDot == [i \in Pixels |-> IF i = cfg.sampleWidth + 1 THEN White ELSE Black]
FrameRed == [i \in Pixels |-> IF i = cfg.sampleWidth + 1 THEN Red ELSE Black]
VideoFrames == {FrameDark, FrameDot, FrameRed}

\* previousFrameData = null
NoFrame == <<>>

(***************************************************************************)
(* Gray levels are counted in units of 1/GrayUnit, in which                *)
(* (0.299 r + 0.587 g + 0.114 b) / 255 is the integer                      *)
(* 299 r + 587 g + 114 b.  The arithmetic is exact: the rounding of the    *)
(* Float32Array cells is not modelled.                                     *)
(***************************************************************************)
GrayUnit == 255000

Abs(x) == IF x < 0 THEN -x ELSE x

toGrayscale(image) ==
    [i \in DOMAIN image |-> 299 * image[i].r + 587 * image[i].g + 114 * image[i].b]

\* previousFrameData[i] = Math.round(currentGray[i] * 255)
toBytes(gray) == [i \in DOMAIN gray |-> (gray[i] + 500) \div 1000]

\* previousGray[i] = previousFrameData[i] / 255
fromBytes(bytes) == [i \in DOMAIN bytes |-> bytes[i] * 1000]

applyLaplacian(data, width, height) ==
    [idx \in DOMAIN data |->
        LET x == idx % width
            y == idx \div width
        IN  IF 1 <= x /\ x < width - 1 /\ 1 <= y /\ y < height - 1
            THEN Abs(4 * data[idx] - data[idx - 1] - data[idx + 1]
                     - data[idx - width] - data[idx + width])
            ELSE 0]

RECURSIVE SumBelow(_, _)
SumBelow(f, n) == IF n = 0 THEN 0 ELSE f[n - 1] + SumBelow(f, n - 1)

\* calculateMotionScore without its test of the lengths: a cell that the
\* previous buffer lacks counts as 0
calculateMotionScoreUnchecked(current, previous) ==
    SumBelow(applyLaplacian([i \in DOMAIN current |->
                                Abs(current[i] - (IF i \in DOMAIN previous
                                                  THEN previous[i] ELSE 0))],
                            cfg.sampleWidth, cfg.sampleHeight),
             Cardinality(DOMAIN current))

\* the score times the number of cells, in units of 1/GrayUnit
calculateMotionScore(current, previous) ==
    IF DOMAIN current # DOMAIN previous THEN 0
    ELSE LET diff == [i \in DOMAIN current |-> Abs(current[i] - previous[i])]
             highFreqMotion == applyLaplacian(diff, cfg.sampleWidth, cfg.sampleHeight)
         IN  SumBelow(highFreqMotion, Cardinality(DOMAIN highFreqMotion))

(***************************************************************************)
(* A threshold is a JavaScript number, counted in hundredths.  The numbers *)
(* beyond Huge hundredths are not told apart: Infinity stands for all of   *)
(* them and for Infinity itself, -Infinity for those below -Huge.  NaN is  *)
(* the one number that every comparison answers with false; it is encoded  *)
(* outside the scale and is never used as a magnitude.                     *)
(***************************************************************************)
Huge == 1000
Infinity == Huge + 1
NaN == Infinity + 1

\* motionScore > threshold, the threshold in hundredths
ScoreExceeds(total, t) == t # NaN /\ total * 100 > t * GrayUnit * Cardinality(Pixels)

\* now - lastAlertTime > cfg.alertCooldownMs
cooldownPassed(t, lastAlert) == t - lastAlert > cfg.alertCooldownMs

\* what a handler run that is no run of processFrame leaves in lastFrame
NoFrameSeen ==
    [scored |-> FALSE, over |-> FALSE, ripe |-> FALSE, due |-> FALSE,
     alerted |-> FALSE, same |-> FALSE, score |-> 0, calls |-> <<>>,
     ticked |-> FALSE,  \* processFrame ran on a running analyzer
     passed |-> FALSE,  \* the tick was not skipped
     counted |-> FALSE, \* the frame was processed: the video was playing, the analyzer not paused
     mismatch |-> FALSE, \* the frame was compared with a previous buffer of another size
     nth |-> 0]         \* the ticks since the last tick that was not skipped, this one included

\* The motion analyzer's state as one record.
M == [previousFrameData |-> previousFrameData, frameCount |-> frameCount,
      skipCounter |-> skipCounter, animationId |-> animationId,
      threshold |-> threshold, paused |-> paused, lastAlertTime |-> lastAlertTime,
      isRunning |-> isRunning, rafQueue |-> rafQueue, alertedAt |-> alertedAt,
      previousImage |-> previousImage,
      framesSince |-> framesSince, pausedSince |-> pausedSince,
      lastFrame |-> NoFrameSeen,
      ok |-> TRUE]

\* animationId = requestAnimationFrame(processFrame)
requestFrame(m) ==
    LET free == FrameIds \ m.rafQueue
    IN  IF free = {} THEN [m EXCEPT !.ok = FALSE]
        ELSE [m EXCEPT !.animationId = Smallest(free),
                       !.rafQueue = @ \cup {Smallest(free)}]

\* callbacks.onMotionLevel(...)
onMotionLevelCall == <<"onMotionLevel">>

\* callbacks.onMotionAlert(), when the alert test passes
onMotionAlertCall(alert) == IF alert THEN <<"onMotionAlert">> ELSE <<>>

\* the part of processFrame that compares the frame with the one before it
scoreFrame(m, t, currentGray) ==
    LET motionScore == calculateMotionScore(currentGray, fromBytes(m.previousFrameData))
        over == ScoreExceeds(motionScore, m.threshold)
        alert == over /\ cooldownPassed(t, m.lastAlertTime)
        seen == [m.lastFrame EXCEPT
                 !.scored = TRUE, !.over = over,
                 !.ripe = t - m.lastAlertTime >= cfg.alertCooldownMs,
                 !.due = m.alertedAt = NULL \/ t - m.alertedAt >= cfg.alertCooldownMs,
                 !.alerted = alert, !.score = motionScore,
                 !.mismatch = DOMAIN currentGray # DOMAIN m.previousFrameData,
                 !.calls = onMotionLevelCall \o onMotionAlertCall(alert)]
    IN  IF alert
        THEN [m EXCEPT !.lastAlertTime = t, !.alertedAt = t, !.lastFrame = seen]
        ELSE [m EXCEPT !.lastFrame = seen]

\* frameCount < cfg.stabilizationFrames
stabilizingOneLess(m) == m.frameCount < cfg.stabilizationFrames

\* frameCount <= cfg.stabilizationFrames, after frameCount++
stabilizing(m) == m.frameCount <= cfg.stabilizationFrames

\* skipCounter <= cfg.frameSkip, after skipCounter++
skipsTick(m) == m.skipCounter <= cfg.frameSkip

\* processFrame at time t: image is what the video element shows, playing is
\* video.readyState >= 2 && !video.paused
processFrame(m, t, image, playing) ==
    IF ~m.isRunning THEN m
    ELSE LET m1 == requestFrame(m)
             m2 == [m1 EXCEPT !.skipCounter = @ + 1,
                              !.lastFrame.ticked = TRUE,
                              !.lastFrame.nth = m.skipCounter + 1]
         IN  IF skipsTick(m2) THEN m2
             ELSE LET m3 == [m2 EXCEPT !.skipCounter = 0, !.lastFrame.passed = TRUE]
                  IN  IF ~playing \/ m3.paused THEN m3
                      ELSE LET currentGray == toGrayscale(image)
                               m4 == [m3 EXCEPT !.frameCount = @ + 1,
                                                !.framesSince = @ + 1,
                                                !.lastFrame.counted = TRUE]
                               m5 == IF stabilizing(m4)
                                     THEN [m4 EXCEPT !.lastFrame.calls = onMotionLevelCall]
                                     ELSE IF m4.previousFrameData = NoFrame THEN m4
                                     ELSE scoreFrame(m4, t, currentGray)
                           IN  [m5 EXCEPT !.previousFrameData = toBytes(currentGray),
                                          !.previousImage = image,
                                          !.lastFrame.same = (m.previousImage = image)]

motionStart(m) ==
    IF m.isRunning THEN m
    ELSE requestFrame([m EXCEPT !.isRunning = TRUE, !.frameCount = 0,
                                !.skipCounter = 0, !.previousFrameData = NoFrame,
                                !.previousImage = NoFrame, !.lastAlertTime = 0,
                                !.framesSince = 0, !.pausedSince = FALSE])

motionStop(m) ==
    LET m1 == [m EXCEPT !.isRunning = FALSE]
        m2 == IF m1.animationId # NULL
              THEN [m1 EXCEPT !.rafQueue = @ \ {m1.animationId}, !.animationId = NULL]
              ELSE m1
    IN  [m2 EXCEPT !.previousFrameData = NoFrame, !.previousImage = NoFrame]

\* Math.min and Math.max: NaN if an argument is NaN
Min(a, b) == IF a = NaN \/ b = NaN THEN NaN ELSE IF a < b THEN a ELSE b
Max(a, b) == IF a = NaN \/ b = NaN THEN NaN ELSE IF a > b THEN a ELSE b

\* threshold = Math.max(0.01, Math.min(0.5, newThreshold))
motionSetThreshold(m, newThreshold) == [m EXCEPT !.threshold = Max(1, Min(50, newThreshold))]

\* setPaused that only stores the flag
motionSetPausedFlagOnly(m, p) ==
    [m EXCEPT !.paused = p, !.framesSince = IF p THEN 0 ELSE @,
              !.pausedSince = @ \/ (p /\ m.isRunning)]

motionSetPaused(m, p) ==
    IF p THEN [m EXCEPT !.paused = TRUE, !.previousFrameData = NoFrame,
                        !.previousImage = NoFrame, !.frameCount = 0,
                        !.framesSince = 0, !.pausedSince = @ \/ m.isRunning]
    ELSE [m EXCEPT !.paused = FALSE]

(***************************************************************************)
(* Frames of the default sample size: DEFAULT_CONFIG has sampleWidth 160   *)
(* and sampleHeight 120.  BlockImage(x, y) is black with a white square of *)
(* BlockSide pixels a side whose top left corner is at (x, y).             *)
(***************************************************************************)
FullWidth == 160
FullHeight == 120
FullPixels == 0..(FullWidth * FullHeight - 1)
BlockSide == 10

FullDark == [i \in FullPixels |-> Black]

BlockImage(x, y) ==
    [i \in FullPixels |->
        IF /\ x <= i % FullWidth /\ i % FullWidth < x + BlockSide
           /\ y <= i \div FullWidth /\ i \div FullWidth < y + BlockSide
        THEN White ELSE Black]

RECURSIVE SumBetween(_, _, _)
SumBetween(f, lo, hi) ==
    IF hi <= lo THEN 0
    ELSE IF hi = lo + 1 THEN f[lo]
    ELSE SumBetween(f, lo, (lo + hi) \div 2) + SumBetween(f, (lo + hi) \div 2, hi)

\* calculateMotionScore for frames of the given size: the score times the
\* number of cells, in units of 1/GrayUnit
calculateMotionScoreOn(current, previous, width, height) ==
    IF DOMAIN current # DOMAIN previous THEN 0
    ELSE SumBetween(applyLaplacian([i \in DOMAIN current |-> Abs(current[i] - previous[i])],
                                   width, height),
                    0, width * height)

\* motionScore > threshold for a frame of the given number of cells, the
\* threshold t in hundredths: total / (GrayUnit * cells) > t / 100
ScoreExceedsOn(total, t, cells) ==
    /\ t # NaN
    /\ \/ total \div cells > t * (GrayUnit \div 100)
       \/ total \div cells = t * (GrayUnit \div 100) /\ total % cells # 0

(***************************************************************************)
(* processFrame on the second frame of the pair, after stabilization: the  *)
(* frame before it was all black and is kept as bytes, the threshold is    *)
(* what setThreshold(asked) has stored, the last alert was at              *)
(* lastAlertTime.                                                          *)
(***************************************************************************)
scoreBlockFrame(m, t, x, y) ==
    LET motionScore == calculateMotionScoreOn(
                           toGrayscale(BlockImage(x, y)),
                           fromBytes(toBytes(toGrayscale(FullDark))),
                           FullWidth, FullHeight)
        alert == /\ ScoreExceedsOn(motionScore, m.threshold, FullWidth * FullHeight)
                 /\ cooldownPassed(t, m.lastAlertTime)
    IN  [set |-> TRUE, scored |-> TRUE, score |-> motionScore,
         elapsed |-> t - m.lastAlertTime,
         calls |-> onMotionLevelCall \o onMotionAlertCall(alert)]

----------------------------------------------------------------------------
(***************************************************************************)
(* The audio level analyzer: src/src/utils.ts, createAudioLevelMeter,      *)
(* created with an onAlert callback and with or without an onLevel         *)
(* callback.  alertCooldownMs is the option of that name (2000 unless      *)
(* given; the parent station gives 4000).  The spectrum has BinCount bins  *)
(* (analyser.frequencyBinCount).                                           *)
(***************************************************************************)
alertCooldownMs == 5
BinCount == 2

\* the calls of stop() that are followed
MaxStops == 2
Bins == 0..(BinCount - 1)

\* analyser.getByteFrequencyData(): a byte per bin
Magnitudes == {0, 51, 204}
Spectra == [Bins -> Magnitudes]

\* what the analyser reports to a running analyzer: every bin alike, or the
\* lowest bin alone
HeardSpectra ==
    {[i \in Bins |-> v] : v \in Magnitudes} \cup {[i \in Bins |-> IF i = 0 THEN 204 ELSE 0]}

(***************************************************************************)
(* computeAWeightGain((i + 0.5) * binWidth) for the lowest bins of a       *)
(* 48 kHz context (binWidth = 48000 / 512), in hundredths, rounded:        *)
(* 0.0267, 0.1832, 0.3435, 0.4837, 0.6033, 0.7035.  Without A-weighting    *)
(* every bin weighs 1.  The level depends on the weights only through      *)
(* weightedSum / weightTotal, so a common factor of the weights does not   *)
(* matter.                                                                 *)
(***************************************************************************)
AWeightGains == <<3, 18, 34, 48, 60, 70>>

\* weights that ignore the useAWeighting option
aWeightsAlways(use) == [i \in Bins |-> AWeightGains[i + 1]]

aWeights(use) == [i \in Bins |-> IF use THEN AWeightGains[i + 1] ELSE 1]

RECURSIVE WeightedSum(_, _, _)
WeightedSum(data, w, n) ==
    IF n = 0 THEN 0
    ELSE data[n - 1] * data[n - 1] * w[n - 1] + WeightedSum(data, w, n - 1)

RECURSIVE WeightTotal(_, _)
WeightTotal(w, n) == IF n = 0 THEN 0 ELSE w[n - 1] + WeightTotal(w, n - 1)

\* weightTotal || 1
WeightTotalOrOne(w) == IF WeightTotal(w, BinCount) = 0 THEN 1 ELSE WeightTotal(w, BinCount)

(***************************************************************************)
(* level = Math.min(1, rms * 2.5) for                                      *)
(* rms = Math.sqrt(weightedSum / (weightTotal || 1)) and magnitudes        *)
(* data[i] / 255.  As 2.5 / 255 = 1 / 102, the square of the level is      *)
(*   min(1, sum / (10404 * total)), sum = SUM data[i]^2 w[i];              *)
(* LevelSquared is its numerator over the denominator LevelUnit(w).  The   *)
(* arithmetic is exact.                                                    *)
(***************************************************************************)
LevelUnit(w) == 10404 * WeightTotalOrOne(w)

LevelSquared(data, w) ==
    IF WeightedSum(data, w, BinCount) < LevelUnit(w)
    THEN WeightedSum(data, w, BinCount) ELSE LevelUnit(w)

\* level >= alertThreshold, the threshold t in hundredths:
\* LevelSquared / LevelUnit >= t^2 / 100^2
LevelAtLeast(data, w, t) ==
    IF t <= 0 THEN TRUE
    ELSE IF t > 100 THEN FALSE
    ELSE LevelSquared(data, w) >= (t * t * 2601 * WeightTotalOrOne(w) + 2499) \div 2500

\* the cooldown test with > for >=
meterCooldownStrict(t, lastAlert) == t - lastAlert > alertCooldownMs

\* now - lastAlertTime >= alertCooldownMs
meterCooldownPassed(t, lastAlert) == t - lastAlert >= alertCooldownMs

\* The audio analyzer's state as one record.
A == [alertThreshold |-> alertThreshold, isPaused |-> isPaused,
      meterLastAlertTime |-> meterLastAlertTime,
      meterAnimationId |-> meterAnimationId, meterState |-> meterState,
      meterStopped |-> meterStopped, meterQueue |-> meterQueue,
      meterAlertedAt |-> meterAlertedAt, pauseTrail |-> pauseTrail,
      useAWeighting |-> useAWeighting, onLevel |-> onLevel,
      sourceDisconnects |-> sourceDisconnects, contextCloses |-> contextCloses,
      lastUpdate |-> [ran |-> FALSE, paused |-> FALSE, loud |-> FALSE,
                      due |-> FALSE, exact |-> FALSE, alerted |-> FALSE,
                      calls |-> <<>>, trail |-> "none"],
      ok |-> TRUE]

\* an update that leaves onLevel out while the analyzer is paused
onLevelUnlessPaused(a) == IF a.onLevel /\ ~a.isPaused THEN <<"onLevel">> ELSE <<>>

\* onLevel?.(level)
onLevelCall(a) == IF a.onLevel THEN <<"onLevel">> ELSE <<>>

\* onAlert(), when the alert test passes
onAlertCall(alert) == IF alert THEN <<"onAlert">> ELSE <<>>

\* an update that tests for the alert before it reports the level
updateCallsAlertFirst(a, alert) == onAlertCall(alert) \o onLevelCall(a)

\* the callbacks of one run of update, in the order of their invocation
updateCalls(a, alert) == onLevelCall(a) \o onAlertCall(alert)

(***************************************************************************)
(* pauseTrail follows one pause of the analyzer: "paused" from             *)
(* setPaused(true), "silenced" once an update has met a level at or above  *)
(* the threshold while paused, "resumed" from the setPaused(false) after   *)
(* that, and "none" again after the update that follows.                   *)
(***************************************************************************)
trailAfterUpdate(a, loud) ==
    IF a.pauseTrail = "paused" /\ a.isPaused /\ loud THEN "silenced"
    ELSE IF a.pauseTrail = "resumed" THEN "none"
    ELSE a.pauseTrail

trailAfterSetPaused(a, p) ==
    IF p THEN (IF a.isPaused THEN a.pauseTrail ELSE "paused")
    ELSE IF a.pauseTrail = "silenced" THEN "resumed"
    ELSE "none"

\* update at time t, data being what the analyser reports
update(a, t, data) ==
    LET loud == LevelAtLeast(data, aWeights(a.useAWeighting), a.alertThreshold)
        alert == ~a.isPaused /\ loud /\ meterCooldownPassed(t, a.meterLastAlertTime)
        seen == [ran |-> TRUE, paused |-> a.isPaused, loud |-> loud,
                 due |-> a.meterAlertedAt = NULL \/ t - a.meterAlertedAt >= alertCooldownMs,
                 exact |-> a.meterAlertedAt # NULL
                           /\ t - a.meterAlertedAt = alertCooldownMs,
                 alerted |-> alert,
                 calls |-> updateCalls(a, alert),
                 trail |-> a.pauseTrail]
        a1 == IF alert
              THEN [a EXCEPT !.meterLastAlertTime = t, !.meterAlertedAt = t,
                             !.lastUpdate = seen,
                             !.pauseTrail = trailAfterUpdate(a, loud)]
              ELSE [a EXCEPT !.lastUpdate = seen,
                             !.pauseTrail = trailAfterUpdate(a, loud)]
        free == FrameIds \ a1.meterQueue
    IN  IF free = {} THEN [a1 EXCEPT !.ok = FALSE]
        ELSE [a1 EXCEPT !.meterAnimationId = Smallest(free),
                        !.meterQueue = @ \cup {Smallest(free)}]

\* createAudioLevelMeter: suspended is audioContext.state === 'suspended'
createAudioLevelMeter(a, t, suspended, data) ==
    IF suspended THEN [a EXCEPT !.meterState = "suspended"]
    ELSE update([a EXCEPT !.meterState = "running"], t, data)

\* stop(): cancelAnimationFrame(animationId), source.disconnect(), audioContext.close()
meterStop(a) ==
    [a EXCEPT !.meterQueue = IF a.meterAnimationId # NULL
                             THEN @ \ {a.meterAnimationId} ELSE @,
              !.meterStopped = TRUE,
              !.sourceDisconnects = @ + 1,
              !.contextCloses = @ + 1,
              !.ok = a.contextCloses < MaxStops]

meterSetThreshold(a, t) == [a EXCEPT !.alertThreshold = t]

meterSetPaused(a, p) ==
    [a EXCEPT !.isPaused = p, !.pauseTrail = trailAfterSetPaused(a, p)]

----------------------------------------------------------------------------
(***************************************************************************)
(* The decaying meter: src/src/utils.ts, createDecayingMeter.              *)
(* DecayResistance and SustainPeriod are the options decayResistance and   *)
(* sustainPeriod (500 and 250 unless given), TickPeriod is dt (16.667), in *)
(* ms.  A level is counted in units of 1/DecayResistance, in which a tick  *)
(* takes dt * decayRate = TickPeriod off; a level is a JavaScript number   *)
(* and may be NaN.  performance.now() is the clock now.                    *)
(***************************************************************************)
DecayResistance == 5
SustainPeriod == 3
TickPeriod == 2

\* a > b for JavaScript numbers
Greater(a, b) == a # NaN /\ b # NaN /\ a > b

\* The decaying meter's state as one record.
D == [currentLevel |-> currentLevel, lastPeakTime |-> lastPeakTime,
      intervalId |-> intervalId, shownLevel |-> shownLevel, raisedAt |-> raisedAt,
      peak |-> peak, decayTicks |-> decayTicks, timerLive |-> timerLive,
      timerClears |-> timerClears, decayStops |-> decayStops, ok |-> TRUE,
      lastDecay |-> [op |-> "none", arg |-> 0, before |-> currentLevel, held |-> FALSE]]

\* applyLevel: the element's width and classes follow currentLevel
applyLevel(d) == [d EXCEPT !.shownLevel = d.currentLevel]

\* an update that takes every level passed
decayUpdateSnaps(d, t, level) ==
    applyLevel([d EXCEPT !.currentLevel = level, !.lastPeakTime = t,
                         !.raisedAt = t, !.peak = level, !.decayTicks = 0,
                         !.lastDecay = [op |-> "update", arg |-> level,
                                        before |-> d.currentLevel, held |-> FALSE]])

\* update(level) at time t
decayUpdate(d, t, level) ==
    IF Greater(level, d.currentLevel)
    THEN applyLevel([d EXCEPT !.currentLevel = level, !.lastPeakTime = t,
                              !.raisedAt = t, !.peak = level, !.decayTicks = 0,
                              !.lastDecay = [op |-> "update", arg |-> level,
                                             before |-> d.currentLevel, held |-> FALSE]])
    ELSE [d EXCEPT !.lastDecay = [op |-> "update", arg |-> level,
                                  before |-> d.currentLevel, held |-> FALSE]]

\* a tick that decays at once, without a sustain period
decayTickNoSustain(d, t) ==
    LET seen == [op |-> "tick", arg |-> 0, before |-> d.currentLevel,
                 held |-> d.lastPeakTime + SustainPeriod > t]
    IN  IF d.currentLevel > 0
        THEN applyLevel([d EXCEPT !.currentLevel = Max(0, @ - TickPeriod),
                                  !.decayTicks = @ + 1, !.lastDecay = seen])
        ELSE [d EXCEPT !.decayTicks = @ + 1, !.lastDecay = seen]

\* the setInterval callback at time t
decayTick(d, t) ==
    LET seen == [op |-> "tick", arg |-> 0, before |-> d.currentLevel,
                 held |-> d.lastPeakTime + SustainPeriod > t]
    IN  IF d.lastPeakTime + SustainPeriod > t THEN [d EXCEPT !.lastDecay = seen]
        ELSE IF d.currentLevel > 0
        THEN applyLevel([d EXCEPT !.currentLevel = Max(0, @ - TickPeriod),
                                  !.decayTicks = @ + 1, !.lastDecay = seen])
        ELSE [d EXCEPT !.decayTicks = @ + 1, !.lastDecay = seen]

\* clearInterval(intervalId); intervalId = null
clearIntervalId(d) ==
    [d EXCEPT !.timerLive = FALSE, !.timerClears = @ + 1, !.intervalId = NULL]

\* a stop() that does not test intervalId
decayStopUnguarded(d) ==
    clearIntervalId([d EXCEPT !.decayStops = @ + 1, !.ok = d.decayStops < MaxStops])

\* stop()
decayStop(d) ==
    IF d.intervalId # NULL
    THEN clearIntervalId([d EXCEPT !.decayStops = @ + 1, !.ok = d.decayStops < MaxStops])
    ELSE [d EXCEPT !.decayStops = @ + 1, !.ok = d.decayStops < MaxStops]

----------------------------------------------------------------------------
(* The state after initParentStation has run: initPeer() was called once. *)

SessionInit ==
    /\ peer = 1
    /\ peerStatus = [p \in PeerIds |-> IF p = 1 THEN "connecting" ELSE "free"]
    /\ activeCall = NULL
    /\ callStatus = [c \in CallIds |-> "free"]
    /\ callPeer = [c \in CallIds |-> NULL]
    /\ dummyStream = NULL
    /\ dummyAudioCtx = NULL
    /\ remoteStream = NULL
    /\ audioMeterHandle = NULL
    /\ audioDecayHandle = NULL
    /\ motionDecayHandle = NULL
    /\ motionDetectorHandle = NULL
    /\ retryTimeout = NULL
    /\ isConnected = FALSE
    /\ isCleaningUp = FALSE
    /\ timers = {}
    /\ dummyLive = {}
    /\ ctxOpen = {}
    /\ inboundLive = FALSE
    /\ audioRunning = {}
    /\ audioDecayRunning = {}
    /\ motionRunning = {}
    /\ motionDecayRunning = {}
    /\ tapVisible = FALSE
    /\ playEventQueued = FALSE
    /\ playsFromStream = 0
    /\ playsFromTap = 0
    /\ lateEffects = {}
    /\ delivering = FALSE
    /\ last = [ev |-> "other", wasConnected |-> FALSE, hadTimer |-> FALSE,
               hadAnalyzers |-> FALSE, placed |-> FALSE,
               replaced |-> FALSE, created |-> FALSE,
               early |-> FALSE, stale |-> FALSE, again |-> FALSE]

(* The signaling service and the remote peer. *)

EnvPeerOpen ==
    \E p \in PeerIds, r \in RandomValues :
        /\ peerStatus[p] = "connecting"
        /\ Commit(onPeerOpen([S EXCEPT !.peerStatus[p] = "open"], r), "peerOpen")

EnvPeerDisconnected ==
    \E p \in PeerIds, r \in RandomValues :
        /\ peerStatus[p] \in {"connecting", "open"}
        /\ Commit(onPeerDisconnected([S EXCEPT !.peerStatus[p] = "disconnected"], r),
                  "peerDisconnected")

\* the library gives the handle up: Peer.destroy(), which emits 'disconnected'
EnvPeerDestroyed ==
    \E p \in PeerIds, r \in RandomValues :
        /\ peerStatus[p] \in {"connecting", "open"}
        /\ Commit(LibPeerDestroy(S, p, r), "peerDisconnected")

EnvPeerError ==
    \E p \in PeerIds, r \in RandomValues :
        /\ peerStatus[p] \in {"connecting", "open", "disconnected"}
        /\ Commit(onPeerError(S, r), "peerError")

\* the call c emits 'close' or 'error'
callEnded(s, c) ==
    [s EXCEPT !.delivering = @ /\ c # s.activeCall,
              !.stale = c # s.activeCall /\ s.delivering]

EnvCallStream ==
    \E c \in CallIds, starts \in BOOLEAN :
        /\ callStatus[c] = "open"
        /\ Commit(onCallStream(S, c, starts), "callStream")

EnvCallClose ==
    \E c \in CallIds, r \in RandomValues :
        /\ callStatus[c] = "open"
        /\ Commit(onCallClose(callEnded([S EXCEPT !.callStatus[c] = "closed"], c), r),
                  "callClose")

EnvCallError ==
    \E c \in CallIds, r \in RandomValues :
        /\ callStatus[c] = "open"
        /\ Commit(onCallError(callEnded(S, c), r), "callError")

(* The host: timers, promises, the video element, the user. *)

RetryTimerFire ==
    \E t \in timers, r \in RandomValues :
        Commit(attemptCall([S EXCEPT !.timers = @ \ {t}], r), "retryTimer")

PlayResolved ==
    \E fromTap \in BOOLEAN, hasAudio \in BOOLEAN :
        /\ IF fromTap THEN playsFromTap > 0 ELSE playsFromStream > 0
        /\ Commit(onPlayResolved(IF fromTap THEN [S EXCEPT !.playsFromTap = @ - 1]
                                 ELSE [S EXCEPT !.playsFromStream = @ - 1], hasAudio),
                  "playResolved")

PlayRejected ==
    \/ /\ playsFromStream > 0
       /\ Commit(onPlayRejected([S EXCEPT !.playsFromStream = @ - 1]), "playRejected")
    \/ /\ playsFromTap > 0
       /\ Commit([S EXCEPT !.playsFromTap = @ - 1], "playRejected")

VideoPlayEvent ==
    /\ playEventQueued
    /\ Commit(onVideoPlay([S EXCEPT !.playEventQueued = FALSE]), "videoPlay")

TapToPlayClick ==
    \E starts \in BOOLEAN :
        /\ tapVisible
        /\ Commit(onTapToPlay(S, starts), "tapToPlay")

Cleanup ==
    \E r \in RandomValues : Commit(cleanup(S, r), "cleanup")

(* The motion analyzer's caller and host. *)

MotionInit ==
    /\ previousFrameData = NoFrame
    /\ frameCount = 0
    /\ skipCounter = 0
    /\ animationId = NULL
    /\ threshold = 5
    /\ paused = FALSE
    /\ lastAlertTime = 0
    /\ isRunning = FALSE
    /\ rafQueue = {}
    /\ lastFrame = NoFrameSeen
    /\ alertedAt = NULL
    /\ previousImage = NoFrame
    /\ framesSince = 0
    /\ pausedSince = FALSE

MotionCommit(m, t) ==
    /\ m.ok
    /\ t <= MaxClock
    /\ now' = t
    /\ previousFrameData' = m.previousFrameData
    /\ frameCount' = m.frameCount
    /\ skipCounter' = m.skipCounter
    /\ animationId' = m.animationId
    /\ threshold' = m.threshold
    /\ paused' = m.paused
    /\ lastAlertTime' = m.lastAlertTime
    /\ isRunning' = m.isRunning
    /\ rafQueue' = m.rafQueue
    /\ lastFrame' = m.lastFrame
    /\ alertedAt' = m.alertedAt
    /\ previousImage' = m.previousImage
    /\ framesSince' = m.framesSince
    /\ pausedSince' = m.pausedSince
    /\ UNCHANGED <<sessVars, meterVars, blockVars, levelVars, decayVars, pageVars>>

MotionThresholds == {-Infinity, -5, 0, 5, 100, Infinity, NaN}

MotionStart == MotionCommit(motionStart(M), now)

MotionStop == MotionCommit(motionStop(M), now)

MotionSetThreshold == \E t \in MotionThresholds : MotionCommit(motionSetThreshold(M, t), now)

MotionSetPaused == \E p \in BOOLEAN : MotionCommit(motionSetPaused(M, p), now)

MotionFrame ==
    \E id \in rafQueue, d \in Steps, image \in VideoFrames, playing \in BOOLEAN :
        MotionCommit(processFrame([M EXCEPT !.rafQueue = @ \ {id}], now + d, image, playing),
                     now + d)

(* The pair of frames of the default size. *)

BlockCorners == {0, 1, (FullWidth - BlockSide) \div 2}
               \X {0, (FullHeight - BlockSide) \div 2, FullHeight - BlockSide}
BlockThresholds == {-5, 0, 1, 2}

NoBlockSeen == [set |-> FALSE, scored |-> FALSE, score |-> 0, elapsed |-> 0, calls |-> <<>>]

BlockInit ==
    /\ blockAt = <<0, 0>>
    /\ asked = 0
    /\ blockSeen = NoBlockSeen

\* setThreshold(asked), some time after the analyzer was started
BlockSetThreshold ==
    /\ ~blockSeen.set
    /\ threshold' = motionSetThreshold(M, asked).threshold
    /\ blockSeen' = [blockSeen EXCEPT !.set = TRUE]
    /\ UNCHANGED <<sessVars, now, meterVars, levelVars, decayVars, pageVars, blockAt, asked,
                   previousFrameData, frameCount, skipCounter, animationId, paused,
                   lastAlertTime, isRunning, rafQueue, lastFrame, alertedAt,
                   previousImage, framesSince, pausedSince>>

\* processFrame scores the frame with the block
BlockFrame ==
    /\ blockSeen.set /\ ~blockSeen.scored
    /\ blockSeen' = scoreBlockFrame(M, now, blockAt[1], blockAt[2])
    /\ UNCHANGED <<sessVars, now, motionVars, meterVars, levelVars, decayVars, pageVars,
                   blockAt, asked>>

(* The audio analyzer's caller and host. *)

MeterInit ==
    /\ alertThreshold = 50
    /\ isPaused = FALSE
    /\ meterLastAlertTime = 0
    /\ meterAnimationId = NULL
    /\ meterState = "none"
    /\ meterStopped = FALSE
    /\ sourceDisconnects = 0
    /\ contextCloses = 0
    /\ meterQueue = {}
    /\ lastUpdate = [ran |-> FALSE, paused |-> FALSE, loud |-> FALSE, due |-> FALSE,
                     exact |-> FALSE, alerted |-> FALSE, calls |-> <<>>,
                     trail |-> "none"]
    /\ meterAlertedAt = NULL
    /\ pauseTrail = "none"
    /\ useAWeighting = TRUE
    /\ onLevel = FALSE

MeterCommit(a, t) ==
    /\ a.ok
    /\ t <= MaxClock
    /\ now' = t
    /\ alertThreshold' = a.alertThreshold
    /\ isPaused' = a.isPaused
    /\ meterLastAlertTime' = a.meterLastAlertTime
    /\ meterAnimationId' = a.meterAnimationId
    /\ meterState' = a.meterState
    /\ meterStopped' = a.meterStopped
    /\ sourceDisconnects' = a.sourceDisconnects
    /\ contextCloses' = a.contextCloses
    /\ meterQueue' = a.meterQueue
    /\ lastUpdate' = a.lastUpdate
    /\ meterAlertedAt' = a.meterAlertedAt
    /\ pauseTrail' = a.pauseTrail
    /\ useAWeighting' = a.useAWeighting
    /\ onLevel' = a.onLevel
    /\ UNCHANGED <<sessVars, motionVars, blockVars, levelVars, decayVars, pageVars>>

MeterThresholds == {25, 50, 101}

\* options.alertThreshold ?? 0.5, useAWeighting = true unless given
MeterCreate ==
    \E t \in MeterThresholds, use \in BOOLEAN, level \in BOOLEAN,
       suspended \in BOOLEAN, data \in HeardSpectra :
        /\ meterState = "none"
        /\ MeterCommit(createAudioLevelMeter([A EXCEPT !.alertThreshold = t,
                                                       !.useAWeighting = use,
                                                       !.onLevel = level],
                                             now, suspended, data), now)

(* The decaying meter's caller and host: the meter has just been created. *)

DecayInit ==
    /\ currentLevel = 0
    /\ lastPeakTime = ClockStart
    /\ intervalId = 1
    /\ shownLevel = 0
    /\ lastDecay = [op |-> "none", arg |-> 0, before |-> 0, held |-> FALSE]
    /\ raisedAt = NULL
    /\ peak = 0
    /\ decayTicks = 0
    /\ timerLive = TRUE
    /\ timerClears = 0
    /\ decayStops = 0

DecayCommit(d, t) ==
    /\ d.ok
    /\ t <= MaxClock
    /\ now' = t
    /\ currentLevel' = d.currentLevel
    /\ lastPeakTime' = d.lastPeakTime
    /\ intervalId' = d.intervalId
    /\ shownLevel' = d.shownLevel
    /\ lastDecay' = d.lastDecay
    /\ raisedAt' = d.raisedAt
    /\ peak' = d.peak
    /\ decayTicks' = d.decayTicks
    /\ timerLive' = d.timerLive
    /\ timerClears' = d.timerClears
    /\ decayStops' = d.decayStops
    /\ UNCHANGED <<sessVars, motionVars, meterVars, blockVars, levelVars, pageVars>>

DecayLevels == {-1, 0, 2, DecayResistance, DecayResistance + 2, NaN}

DecayUpdate ==
    \E level \in DecayLevels, d \in {0} \cup Steps :
        DecayCommit(decayUpdate(D, now + d, level), now + d)

DecayTick ==
    \E d \in Steps :
        /\ timerLive
        /\ DecayCommit(decayTick(D, now + d), now + d)

DecayStop == DecayCommit(decayStop(D), now)

(* The pair of spectra. *)

NoLevelSeen == [scored |-> FALSE, use |-> FALSE, a |-> 0, b |-> 0]

LevelInit ==
    /\ spectrumA = [i \in Bins |-> 0]
    /\ spectrumB = [i \in Bins |-> 0]
    /\ levelSeen = NoLevelSeen

\* the levels an analyzer created with useAWeighting: use passes to onLevel
\* for the two spectra
LevelPair ==
    \E use \in BOOLEAN :
        /\ ~levelSeen.scored
        /\ levelSeen' = [scored |-> TRUE, use |-> use,
                         a |-> LevelSquared(spectrumA, aWeights(use)),
                         b |-> LevelSquared(spectrumB, aWeights(use))]
        /\ UNCHANGED <<sessVars, now, motionVars, meterVars, blockVars, decayVars, pageVars,
                       spectrumA, spectrumB>>

\* audioContext.resume().then(update)
MeterResumed ==
    \E d \in Steps, data \in HeardSpectra :
        /\ meterState = "suspended"
        /\ MeterCommit(update([A EXCEPT !.meterState = "running"], now + d, data), now + d)

MeterFrame ==
    \E id \in meterQueue, d \in Steps, data \in HeardSpectra :
        MeterCommit(update([A EXCEPT !.meterQueue = @ \ {id}], now + d, data), now + d)

MeterStop ==
    /\ meterState # "none"
    /\ MeterCommit(meterStop(A), now)

MeterSetThreshold ==
    \E t \in MeterThresholds :
        /\ meterState # "none"
        /\ MeterCommit(meterSetThreshold(A, t), now)

MeterSetPaused ==
    \E p \in BOOLEAN :
        /\ meterState # "none"
        /\ MeterCommit(meterSetPaused(A, p), now)

----------------------------------------------------------------------------
(***************************************************************************)
(* The answering station: src/src/baby-station.ts, initBabyStation, the    *)
(* peer's 'call' handler and the 'close' and 'error' handlers it gives     *)
(* each call.  MediaConnection.close() closes an open call and emits       *)
(* 'close', as for the calling station.                                    *)
(***************************************************************************)
MaxBabyCalls == 3
BabyCallIds == 1..MaxBabyCalls
NoBabyCall == [status |-> "free", callClosed |-> FALSE, superseded |-> FALSE]

MaxMediaRequests == 3

B == [activeCall |-> babyActiveCall, calls |-> babyCalls,
      qrSectionOpen |-> qrSectionOpen, phase |-> babyPhase, statusText |-> babyStatus,
      peer |-> babyPeer, stream |-> babyStream, mediaRequests |-> mediaRequests,
      switchRequests |-> switchRequests, pendingSwitches |-> pendingSwitches,
      deviceChangeHandler |-> deviceChangeHandler, mediaFailed |-> mediaFailed,
      cleaned |-> babyCleaned, ok |-> TRUE]

\* handleCallTerminated of the call c
handleCallTerminated(b, c) ==
    IF b.calls[c].callClosed THEN b
    ELSE [b EXCEPT !.calls[c].callClosed = TRUE,
                   !.activeCall = IF @ = c THEN NULL ELSE @,
                   !.statusText = "Waiting for parent",
                   !.qrSectionOpen = TRUE]

\* call.close() of the call c
babyCallClose(b, c) ==
    IF b.calls[c].status # "open" THEN b
    ELSE handleCallTerminated([b EXCEPT !.calls[c].status = "closed"], c)

\* if (activeCall && activeCall !== call) activeCall.close(), for a new call
closeEarlierCall(b) ==
    IF b.activeCall # NULL
    THEN babyCallClose([b EXCEPT !.calls[b.activeCall].superseded = TRUE], b.activeCall)
    ELSE b

\* the 'call' handler that does not close the call held
onBabyCallKeepsEarlier(b, c) ==
    [b EXCEPT !.statusText = "Parent connected",
              !.activeCall = c,
              !.calls[c] = [NoBabyCall EXCEPT !.status = "open"],
              !.qrSectionOpen = FALSE]

\* peer.on('call'), the inbound call being c
onBabyCall(b, c) ==
    [closeEarlierCall([b EXCEPT !.statusText = "Parent connected"])
        EXCEPT !.activeCall = c,
               !.calls[c] = [NoBabyCall EXCEPT !.status = "open"],
               !.qrSectionOpen = FALSE]

\* startStream up to its await of getUserMedia
startStreamCall(b) ==
    [b EXCEPT !.stream = IF @ = "live" THEN "stopped" ELSE @,
              !.mediaRequests = @ + 1,
              !.ok = @ /\ b.mediaRequests < MaxMediaRequests]

\* a catch that asks for the media again
catchInitErrorAsksAgain(b) ==
    [startStreamCall(b) EXCEPT !.statusText = "Error accessing camera/mic",
                               !.phase = "acquire"]

\* the catch of initBabyStation's try block
catchInitError(b) ==
    [b EXCEPT !.statusText = "Error accessing camera/mic", !.phase = "failed"]

\* startStream after getUserMedia has resolved
startStreamResolved(b) == [b EXCEPT !.stream = "live"]

\* the first populateDevices() settles
onEnumerated(b, resolved) ==
    IF resolved THEN [startStreamCall(b) EXCEPT !.phase = "acquire"]
    ELSE catchInitError(b)

\* the first startStream(true) settles
onMediaSettled(b, resolved) ==
    IF resolved THEN [startStreamResolved(b) EXCEPT !.phase = "reenumerate"]
    ELSE catchInitError([b EXCEPT !.mediaFailed = TRUE])

\* the second populateDevices() settles: on success the Peer is created
onReenumerated(b, resolved) ==
    IF resolved
    THEN [b EXCEPT !.statusText = "Connecting to signaling server",
                   !.peer = "created", !.phase = "done"]
    ELSE catchInitError(b)

\* peer.on('open')
onBabyPeerOpen(b) == [b EXCEPT !.peer = "open", !.statusText = "Ready"]

\* peer.on('error')
onBabyPeerError(b) == [b EXCEPT !.statusText = "Error: type"]

\* the 'change' listeners of the two selects
onSelectChange(b) ==
    [startStreamCall(b) EXCEPT !.switchRequests = @ + 1, !.pendingSwitches = @ + 1]

\* the startStream() of a 'change' listener settles
onSwitchSettled(b, resolved) ==
    IF resolved THEN [startStreamResolved(b) EXCEPT !.pendingSwitches = @ - 1]
    ELSE [b EXCEPT !.pendingSwitches = @ - 1, !.statusText = "Error switching device"]

\* the cleanup of the handle initBabyStation returns
babyCleanup(b) ==
    [(IF b.activeCall # NULL THEN babyCallClose(b, b.activeCall) ELSE b)
        EXCEPT !.deviceChangeHandler = FALSE,
               !.activeCall = NULL,
               !.peer = IF @ = "none" THEN @ ELSE "destroyed",
               !.stream = "none",
               !.cleaned = TRUE]

FreeBabyCalls == {c \in BabyCallIds : babyCalls[c].status = "free"}

BabyInit ==
    /\ babyActiveCall = NULL
    /\ babyCalls = [c \in BabyCallIds |-> NoBabyCall]
    /\ qrSectionOpen = TRUE
    /\ babyLast = [ev |-> "none", call |-> NULL, held |-> NULL]
    /\ babyPhase = "done"
    /\ babyStatus = "Ready"
    /\ babyPeer = "open"
    /\ babyStream = "live"
    /\ mediaRequests = 1
    /\ switchRequests = 0
    /\ pendingSwitches = 0
    /\ deviceChangeHandler = TRUE
    /\ mediaFailed = FALSE
    /\ babyCleaned = FALSE

\* initBabyStation up to its try block: the listeners are registered
BabyStartInit ==
    /\ babyActiveCall = NULL
    /\ babyCalls = [c \in BabyCallIds |-> NoBabyCall]
    /\ qrSectionOpen = TRUE
    /\ babyLast = [ev |-> "none", call |-> NULL, held |-> NULL]
    /\ babyPhase = "enumerate"
    /\ babyStatus = "..."
    /\ babyPeer = "none"
    /\ babyStream = "none"
    /\ mediaRequests = 0
    /\ switchRequests = 0
    /\ pendingSwitches = 0
    /\ deviceChangeHandler = TRUE
    /\ mediaFailed = FALSE
    /\ babyCleaned = FALSE

BabyCommit(b, ev, c) ==
    /\ b.ok
    /\ babyActiveCall' = b.activeCall
    /\ babyCalls' = b.calls
    /\ qrSectionOpen' = b.qrSectionOpen
    /\ babyLast' = [ev |-> ev, call |-> c, held |-> babyActiveCall]
    /\ babyPhase' = b.phase
    /\ babyStatus' = b.statusText
    /\ babyPeer' = b.peer
    /\ babyStream' = b.stream
    /\ mediaRequests' = b.mediaRequests
    /\ switchRequests' = b.switchRequests
    /\ pendingSwitches' = b.pendingSwitches
    /\ deviceChangeHandler' = b.deviceChangeHandler
    /\ mediaFailed' = b.mediaFailed
    /\ babyCleaned' = b.cleaned
    /\ UNCHANGED <<sessVars, now, motionVars, meterVars, blockVars, levelVars, decayVars,
                   viewVars, sideVars>>

\* the calling station places a call
BabyCallArrives ==
    \E c \in FreeBabyCalls :
        /\ babyPeer = "open"
        /\ c = Smallest(FreeBabyCalls)
        /\ BabyCommit(onBabyCall(B, c), "call", c)

\* the call ends at the other side: it is closed and emits 'close'
BabyCallClosed ==
    \E c \in BabyCallIds :
        /\ babyCalls[c].status = "open"
        /\ BabyCommit(babyCallClose(B, c), "close", c)

\* a call the station has answered emits 'error'
BabyCallErrored ==
    \E c \in BabyCallIds :
        /\ babyCalls[c].status # "free"
        /\ BabyCommit(handleCallTerminated(B, c), "error", c)

NextBaby ==
    \/ BabyCallArrives
    \/ BabyCallClosed
    \/ BabyCallErrored

\* the first enumeration of the devices resolves or is rejected
BabyEnumerated ==
    \E resolved \in BOOLEAN :
        /\ babyPhase = "enumerate"
        /\ BabyCommit(onEnumerated(B, resolved), "enumerated", NULL)

\* the first getUserMedia resolves, or is rejected: permission denied, no device
BabyMediaSettled ==
    \E resolved \in BOOLEAN :
        /\ babyPhase = "acquire"
        /\ BabyCommit(onMediaSettled(B, resolved), "media", NULL)

\* the second enumeration of the devices resolves or is rejected
BabyReenumerated ==
    \E resolved \in BOOLEAN :
        /\ babyPhase = "reenumerate"
        /\ BabyCommit(onReenumerated(B, resolved), "reenumerated", NULL)

\* the signaling server accepts the Peer
BabyPeerOpen ==
    \E b \in {B} :
        /\ babyPeer = "created"
        /\ BabyCommit(onBabyPeerOpen(b), "open", NULL)

\* the Peer emits 'error'
BabyPeerError ==
    \E b \in {B} :
        /\ babyPeer \in {"created", "open"}
        /\ BabyCommit(onBabyPeerError(b), "peerError", NULL)

\* the user picks another camera or microphone
BabySelectChange ==
    \E b \in {B} :
        /\ ~babyCleaned
        /\ BabyCommit(onSelectChange(b), "change", NULL)

\* the getUserMedia of such a pick resolves or is rejected
BabySwitchSettled ==
    \E resolved \in BOOLEAN :
        /\ pendingSwitches > 0
        /\ BabyCommit(onSwitchSettled(B, resolved), "switched", NULL)

\* the page calls the cleanup of the handle, which it has once
\* initBabyStation has returned
BabyCleanup ==
    \E b \in {B} :
        /\ babyPhase \in {"done", "failed"}
        /\ ~babyCleaned
        /\ BabyCommit(babyCleanup(b), "cleanup", NULL)

NextBabyStart ==
    \/ BabyEnumerated
    \/ BabyMediaSettled
    \/ BabyReenumerated
    \/ BabyPeerOpen
    \/ BabyPeerError
    \/ BabySelectChange
    \/ BabySwitchSettled
    \/ BabyCleanup
    \/ BabyCallArrives
    \/ BabyCallClosed
    \/ BabyCallErrored

(***************************************************************************)
(* requestWakeLock of utils.ts, after its first request has resolved: the  *)
(* sentinel held, the 'visibilitychange' listener and the handle's         *)
(* release().  The browser releases the sentinels of a document that is    *)
(* hidden.                                                                 *)
(***************************************************************************)
MaxSentinels == 3
SentinelIds == 1..MaxSentinels
NoSentinel == [state |-> "free", handleReleases |-> 0]

W == [wakeLock |-> wakeLock, sentinels |-> sentinels,
      visibilityListener |-> visibilityListener, documentVisible |-> documentVisible,
      wakeRequests |-> wakeRequests, releasePhase |-> releasePhase,
      latestSentinel |-> latestSentinel, lateRequests |-> lateRequests, ok |-> TRUE]

FreeSentinels(w) == {i \in SentinelIds : w.sentinels[i].state = "free"}

\* the document becomes hidden or visible: the browser releases the
\* sentinels of a hidden document
setVisibility(w, visible) ==
    [w EXCEPT !.documentVisible = visible,
              !.sentinels = IF visible THEN @
                            ELSE [i \in SentinelIds |->
                                     IF @[i].state = "held"
                                     THEN [@[i] EXCEPT !.state = "released"] ELSE @[i]]]

\* handleVisibilityChange up to its await
handleVisibilityChange(w) ==
    IF w.documentVisible
    THEN [w EXCEPT !.wakeRequests = @ + 1,
                   !.lateRequests = IF w.releasePhase # "none" THEN @ + 1 ELSE @,
                   !.ok = @ /\ Cardinality(FreeSentinels(w)) > w.wakeRequests]
    ELSE w

\* a 'visibilitychange' event
onVisibilityChange(w, visible) ==
    IF w.visibilityListener THEN handleVisibilityChange(setVisibility(w, visible))
    ELSE setVisibility(w, visible)

\* handleVisibilityChange after navigator.wakeLock.request has settled
onWakeRequestSettled(w, resolved) ==
    IF resolved
    THEN [w EXCEPT !.wakeRequests = @ - 1,
                   !.wakeLock = Smallest(FreeSentinels(w)),
                   !.latestSentinel = Smallest(FreeSentinels(w)),
                   !.sentinels[Smallest(FreeSentinels(w))].state = "held"]
    ELSE [w EXCEPT !.wakeRequests = @ - 1]

\* the handle's release() up to its await, or to its end
wakeRelease(w) ==
    IF w.wakeLock # NULL /\ w.sentinels[w.wakeLock].state = "held"
    THEN [w EXCEPT !.visibilityListener = FALSE,
                   !.sentinels[w.wakeLock] =
                       [state |-> "released", handleReleases |-> @.handleReleases + 1],
                   !.releasePhase = "awaiting"]
    ELSE [w EXCEPT !.visibilityListener = FALSE,
                   !.wakeLock = NULL,
                   !.releasePhase = "done"]

\* release() after wakeLock.release() has resolved
wakeReleaseResolved(w) ==
    [w EXCEPT !.wakeLock = NULL, !.releasePhase = "done"]

WakeInit ==
    /\ wakeLock = 1
    /\ sentinels = [i \in SentinelIds |->
                       IF i = 1 THEN [NoSentinel EXCEPT !.state = "held"] ELSE NoSentinel]
    /\ visibilityListener = TRUE
    /\ documentVisible = TRUE
    /\ wakeRequests = 0
    /\ releasePhase = "none"
    /\ latestSentinel = 1
    /\ lateRequests = 0

WakeCommit(w) ==
    /\ w.ok
    /\ wakeLock' = w.wakeLock
    /\ sentinels' = w.sentinels
    /\ visibilityListener' = w.visibilityListener
    /\ documentVisible' = w.documentVisible
    /\ wakeRequests' = w.wakeRequests
    /\ releasePhase' = w.releasePhase
    /\ latestSentinel' = w.latestSentinel
    /\ lateRequests' = w.lateRequests
    /\ UNCHANGED <<sessVars, now, motionVars, meterVars, blockVars, levelVars, decayVars,
                   viewVars, babyVars, panelVars>>

\* the document fires 'visibilitychange'
VisibilityChange ==
    \E visible \in BOOLEAN, w \in {W} :
        WakeCommit(onVisibilityChange(w, visible))

\* a request of the visibility handler resolves with a new sentinel, or is rejected
WakeRequestSettled ==
    \E resolved \in BOOLEAN, w \in {W} :
        /\ wakeRequests > 0
        /\ WakeCommit(onWakeRequestSettled(w, resolved))

\* the station's cleanup calls the handle's release(), once
WakeRelease ==
    \E w \in {wakeRelease(W)}, phase \in {releasePhase} :
        /\ phase = "none"
        /\ WakeCommit(w)

\* the wakeLock.release() awaited by release() resolves
WakeReleaseResolved ==
    \E w \in {wakeReleaseResolved(W)}, phase \in {releasePhase} :
        /\ phase = "awaiting"
        /\ WakeCommit(w)

NextWake ==
    \/ VisibilityChange
    \/ WakeRequestSettled
    \/ WakeRelease
    \/ WakeReleaseResolved

(***************************************************************************)
(* The monitoring station's pause checkboxes and alert toasts              *)
(* (src/unnamed/part_008).  An analyzer that is held and not paused calls  *)
(* its alert callback when it hears or sees enough; a paused one does not. *)
(* A toast's timer fires when its delay has passed.                        *)
(***************************************************************************)
ToastMs == 4

P == [pauseCryingChecked |-> pauseCryingChecked,
      pauseSquirmingChecked |-> pauseSquirmingChecked,
      cryingAnalyzer |-> cryingAnalyzer, squirmingAnalyzer |-> squirmingAnalyzer,
      cryingToastVisible |-> cryingToastVisible,
      squirmingToastVisible |-> squirmingToastVisible, videoAlert |-> videoAlert,
      cryingAlertTimeout |-> cryingAlertTimeout,
      squirmingAlertTimeout |-> squirmingAlertTimeout,
      cryingTimers |-> cryingTimers, squirmingTimers |-> squirmingTimers,
      cryingAlertAt |-> cryingAlertAt, squirmingAlertAt |-> squirmingAlertAt]

\* setPaused of an analyzer's handle
analyzerSetPaused(analyzer, checked) == IF checked THEN "paused" ELSE "running"

\* pauseCryingCheckbox 'change', the box now being checked or not
onPauseCryingChange(p, checked) ==
    [p EXCEPT !.pauseCryingChecked = checked,
              !.cryingAnalyzer = IF @ # "none" THEN analyzerSetPaused(@, checked) ELSE @]

\* pauseSquirmingCheckbox 'change'
onPauseSquirmingChange(p, checked) ==
    [p EXCEPT !.pauseSquirmingChecked = checked,
              !.squirmingAnalyzer = IF @ # "none" THEN analyzerSetPaused(@, checked) ELSE @]

\* startAudioMeter: the analyzer held is stopped, a new one is created
newCryingAnalyzer(p) == [p EXCEPT !.cryingAnalyzer = "running"]

\* the 'play' listener: setupMotionDetection unless a detector is held
newSquirmingAnalyzer(p) ==
    IF p.squirmingAnalyzer = "none" THEN [p EXCEPT !.squirmingAnalyzer = "running"] ELSE p

showCryingAlert(p, t) ==
    [p EXCEPT !.cryingToastVisible = TRUE,
              !.videoAlert = TRUE,
              !.cryingTimers = (@ \ {p.cryingAlertTimeout}) \cup {t + ToastMs},
              !.cryingAlertTimeout = t + ToastMs,
              !.cryingAlertAt = t]

showSquirmingAlert(p, t) ==
    [p EXCEPT !.squirmingToastVisible = TRUE,
              !.videoAlert = TRUE,
              !.squirmingTimers = (@ \ {p.squirmingAlertTimeout}) \cup {t + ToastMs},
              !.squirmingAlertTimeout = t + ToastMs,
              !.squirmingAlertAt = t]

\* the callback of the timer of showCryingAlert with the deadline d
onCryingTimer(p, d) ==
    [p EXCEPT !.cryingTimers = @ \ {d},
              !.cryingToastVisible = FALSE,
              !.videoAlert = FALSE]

\* the callback of the timer of showSquirmingAlert with the deadline d
onSquirmingTimer(p, d) ==
    [p EXCEPT !.squirmingTimers = @ \ {d},
              !.squirmingToastVisible = FALSE,
              !.videoAlert = FALSE]

PanelInit ==
    /\ pauseCryingChecked = FALSE
    /\ pauseSquirmingChecked = FALSE
    /\ cryingAnalyzer = "none"
    /\ squirmingAnalyzer = "none"
    /\ cryingToastVisible = FALSE
    /\ squirmingToastVisible = FALSE
    /\ videoAlert = FALSE
    /\ cryingAlertTimeout = NULL
    /\ squirmingAlertTimeout = NULL
    /\ cryingTimers = {}
    /\ squirmingTimers = {}
    /\ cryingAlertAt = NULL
    /\ squirmingAlertAt = NULL
    /\ panelLast = [ev |-> "none", squirmingWas |-> "none", cryingWas |-> "none"]

SideInit == WakeInit /\ PanelInit

PanelCommit(p, ev, t) ==
    /\ pauseCryingChecked' = p.pauseCryingChecked
    /\ pauseSquirmingChecked' = p.pauseSquirmingChecked
    /\ cryingAnalyzer' = p.cryingAnalyzer
    /\ squirmingAnalyzer' = p.squirmingAnalyzer
    /\ cryingToastVisible' = p.cryingToastVisible
    /\ squirmingToastVisible' = p.squirmingToastVisible
    /\ videoAlert' = p.videoAlert
    /\ cryingAlertTimeout' = p.cryingAlertTimeout
    /\ squirmingAlertTimeout' = p.squirmingAlertTimeout
    /\ cryingTimers' = p.cryingTimers
    /\ squirmingTimers' = p.squirmingTimers
    /\ cryingAlertAt' = p.cryingAlertAt
    /\ squirmingAlertAt' = p.squirmingAlertAt
    /\ panelLast' = [ev |-> ev, squirmingWas |-> squirmingAnalyzer,
                     cryingWas |-> cryingAnalyzer]
    /\ now' = t
    /\ UNCHANGED <<sessVars, motionVars, meterVars, blockVars, levelVars, decayVars,
                   viewVars, babyVars, wakeVars>>

\* the user checks or unchecks "pause crying alerts"
PauseCryingChange ==
    \E checked \in BOOLEAN, p \in {P} :
        /\ checked # pauseCryingChecked
        /\ PanelCommit(onPauseCryingChange(p, checked), "pauseCrying", now)

\* the user checks or unchecks "pause squirming alerts"
PauseSquirmingChange ==
    \E checked \in BOOLEAN, p \in {P} :
        /\ checked # pauseSquirmingChecked
        /\ PanelCommit(onPauseSquirmingChange(p, checked), "pauseSquirming", now)

\* the video of a new inbound stream plays: startAudioMeter
AudioMeterStarted ==
    \E p \in {newCryingAnalyzer(P)}, t \in {now} :
        PanelCommit(p, "audioMeter", t)

\* the video element emits 'play' while no detector is held
MotionDetectionSetUp ==
    \E p \in {newSquirmingAnalyzer(P)}, t \in {now} :
        /\ squirmingAnalyzer = "none"
        /\ PanelCommit(p, "motionDetector", t)

\* the audio analyzer held calls onAlert
CryingAlert ==
    \E p \in {showCryingAlert(P, now)}, t \in {now} :
        /\ cryingAnalyzer = "running"
        /\ PanelCommit(p, "cryingAlert", t)

\* the motion analyzer held calls onMotionAlert
SquirmingAlert ==
    \E p \in {showSquirmingAlert(P, now)}, t \in {now} :
        /\ squirmingAnalyzer = "running"
        /\ PanelCommit(p, "squirmingAlert", t)

\* a timer of showCryingAlert fires
CryingTimerFire ==
    \E d \in cryingTimers, p \in {P} :
        /\ d <= now
        /\ PanelCommit(onCryingTimer(p, d), "cryingTimer", now)

\* a timer of showSquirmingAlert fires
SquirmingTimerFire ==
    \E d \in squirmingTimers, p \in {P} :
        /\ d <= now
        /\ PanelCommit(onSquirmingTimer(p, d), "squirmingTimer", now)

\* a millisecond passes; a timer that is due fires before the next one does
PanelTick ==
    \E p \in {P}, t \in {now + 1} :
        /\ t <= MaxClock
        /\ \A d \in cryingTimers \cup squirmingTimers : d >= t
        /\ PanelCommit(p, "tick", t)

NextPanel ==
    \/ PauseCryingChange
    \/ PauseSquirmingChange
    \/ AudioMeterStarted
    \/ MotionDetectionSetUp
    \/ CryingAlert
    \/ SquirmingAlert
    \/ CryingTimerFire
    \/ SquirmingTimerFire
    \/ PanelTick

(***************************************************************************)
(* The page: src/unnamed/part_005 (main.ts).  renderStation is async: it   *)
(* cleans up the station whose handle is held, awaits the import of the    *)
(* station's module, awaits the station's init function and stores the     *)
(* handle that it resolves to.  A station is "importing" until the module  *)
(* is there, "initialising" while its init function runs, "live" once the  *)
(* init function has resolved, "cleaned" once its cleanup() was called and *)
(* "failed" when the import or the init function rejected.                 *)
(***************************************************************************)
MaxStations == 3
StationIds == 1..MaxStations
StationKinds == {"baby", "parent"}
NoStation == [status |-> "free", kind |-> "none"]

V == [currentCleanup |-> currentCleanup, stations |-> stations,
      selectionVisible |-> selectionVisible, ok |-> TRUE]

cleanupCurrentStation(v) ==
    IF v.currentCleanup # NULL
    THEN [v EXCEPT !.stations[v.currentCleanup].status = "cleaned",
                   !.currentCleanup = NULL]
    ELSE v

FreeStations(v) == {i \in StationIds : v.stations[i].status = "free"}

\* renderStation from "try" to its first await: the import of the module starts
startStation(v, kind) ==
    IF FreeStations(v) = {} THEN [v EXCEPT !.ok = FALSE]
    ELSE [v EXCEPT !.stations[Smallest(FreeStations(v))] =
                       [status |-> "importing", kind |-> kind],
                   !.selectionVisible = FALSE]

\* renderStation up to its first await; kind "none" is a call without a
\* station or without a room
renderStation(v, kind) ==
    IF kind = "none"
    THEN [cleanupCurrentStation(v) EXCEPT !.selectionVisible = TRUE]
    ELSE startStation(cleanupCurrentStation(v), kind)

\* currentCleanup = await module.initBabyStation(..) or initParentStation(..)
onInitResolved(v, i) ==
    [v EXCEPT !.stations[i].status = "live", !.currentCleanup = i]

ViewInit ==
    /\ currentCleanup = NULL
    /\ stations = [i \in StationIds |-> NoStation]
    /\ selectionVisible = TRUE

ViewCommit(v) ==
    /\ v.ok
    /\ currentCleanup' = v.currentCleanup
    /\ stations' = v.stations
    /\ selectionVisible' = v.selectionVisible
    /\ UNCHANGED <<sessVars, now, motionVars, meterVars, blockVars, levelVars, decayVars,
                   babyVars, sideVars>>

\* btnBaby and btnParent 'click': the buttons are in the landing view
RoleClick ==
    \E kind \in StationKinds :
        /\ selectionVisible
        /\ ViewCommit(renderStation(V, kind))

\* window 'popstate'
Popstate ==
    \E kind \in StationKinds \cup {"none"}, v \in {cleanupCurrentStation(V)} :
        ViewCommit(renderStation(v, kind))

\* window 'beforeunload', of a page that stays
BeforeUnload ==
    \E v \in {cleanupCurrentStation(V)} : ViewCommit(v)

ImportResolved ==
    \E i \in StationIds :
        /\ stations[i].status = "importing"
        /\ ViewCommit([V EXCEPT !.stations[i].status = "initialising"])

\* the import or the init function rejects: renderStation's catch
InitRejected ==
    \E i \in StationIds :
        /\ stations[i].status \in {"importing", "initialising"}
        /\ ViewCommit([V EXCEPT !.stations[i].status = "failed"])

InitResolved ==
    \E i \in StationIds :
        /\ stations[i].status = "initialising"
        /\ ViewCommit(onInitResolved(V, i))

EmptyView ==
    [currentCleanup |-> NULL, stations |-> [i \in StationIds |-> NoStation],
     selectionVisible |-> TRUE, ok |-> TRUE]

\* the page is loaded with or without a station and a room in its URL
InitView ==
    /\ SessionInit /\ MotionInit /\ MeterInit /\ BlockInit /\ LevelInit /\ DecayInit
    /\ BabyInit /\ SideInit
    /\ now = ClockStart
    /\ currentCleanup = NULL
    /\ \E kind \in StationKinds \cup {"none"} :
           /\ stations = renderStation(EmptyView, kind).stations
           /\ selectionVisible = renderStation(EmptyView, kind).selectionVisible

NextView ==
    \/ RoleClick
    \/ Popstate
    \/ BeforeUnload
    \/ ImportResolved
    \/ InitRejected
    \/ InitResolved

SpecView == InitView /\ [][NextView]_vars

Init ==
    /\ SessionInit /\ MotionInit /\ MeterInit /\ BlockInit /\ LevelInit /\ DecayInit
    /\ ViewInit /\ BabyInit /\ SideInit
    /\ now = ClockStart

Next ==
    \/ EnvPeerOpen
    \/ EnvPeerDisconnected
    \/ EnvPeerDestroyed
    \/ EnvPeerError
    \/ EnvCallStream
    \/ EnvCallClose
    \/ EnvCallError
    \/ RetryTimerFire
    \/ PlayResolved
    \/ PlayRejected
    \/ VideoPlayEvent
    \/ TapToPlayClick
    \/ Cleanup

Spec == Init /\ [][Next]_vars

\* Pending timers fire; a handle that keeps being offered to the signaling
\* service is opened.
SpecLive == Spec /\ WF_vars(RetryTimerFire) /\ SF_vars(EnvPeerOpen)

NextMotion ==
    \/ MotionStart
    \/ MotionStop
    \/ MotionSetThreshold
    \/ MotionSetPaused
    \/ MotionFrame

SpecMotion == Init /\ [][NextMotion]_vars

NextAudio ==
    \/ MeterCreate
    \/ MeterResumed
    \/ MeterFrame
    \/ MeterStop
    \/ MeterSetThreshold
    \/ MeterSetPaused

SpecAudio == Init /\ [][NextAudio]_vars

\* The two analyzers share no state: a behaviour follows one of them.
NextAnalyzers ==
    \/ MeterInit /\ NextMotion
    \/ MotionInit /\ NextAudio

SpecAnalyzers == Init /\ [][NextAnalyzers]_vars

NextDecay ==
    \/ DecayUpdate
    \/ DecayTick
    \/ DecayStop

SpecDecay == Init /\ [][NextDecay]_vars

SpecBaby == Init /\ [][NextBaby]_vars

SpecWake == Init /\ [][NextWake]_vars

SpecPanel == Init /\ [][NextPanel]_vars

InitBabyStart ==
    /\ SessionInit /\ MotionInit /\ MeterInit /\ BlockInit /\ LevelInit /\ DecayInit
    /\ ViewInit /\ BabyStartInit /\ SideInit
    /\ now = ClockStart

SpecBabyStart == InitBabyStart /\ [][NextBabyStart]_vars

(***************************************************************************)
(* A running analyzer past its stabilization frames whose stored previous  *)
(* buffer has another size than the frames it reads, or the size of the    *)
(* frames: the input of calculateMotionScore's test of the lengths.        *)
(***************************************************************************)
MaxOddLength == 3
Bytes == {0, 255}
OddLengths == (1..MaxOddLength) \cup {Cardinality(Pixels) - 1, Cardinality(Pixels) + 1}
StoredBuffers ==
    {[i \in 0..(n - 1) |-> b] : n \in OddLengths \cup {Cardinality(Pixels)}, b \in Bytes}
        \cup UNION {[(0..(n - 1)) -> Bytes] : n \in 1..MaxOddLength}

InitMismatch ==
    /\ SessionInit /\ MeterInit /\ BlockInit /\ LevelInit /\ DecayInit
    /\ ViewInit /\ BabyInit /\ SideInit
    /\ now = ClockStart
    /\ previousFrameData \in StoredBuffers
    /\ frameCount = cfg.stabilizationFrames
    /\ skipCounter = cfg.frameSkip
    /\ animationId = 1
    /\ rafQueue = {1}
    /\ threshold \in {1, 5, 50}
    /\ paused = FALSE
    /\ lastAlertTime = 0
    /\ isRunning = TRUE
    /\ lastFrame = NoFrameSeen
    /\ alertedAt = NULL
    /\ previousImage = NoFrame
    /\ framesSince = cfg.stabilizationFrames
    /\ pausedSince = FALSE

NextMismatch == MotionFrame

SpecMismatch == InitMismatch /\ [][NextMismatch]_vars

\* One pair of frames and one argument of setThreshold per behaviour.
InitBlock ==
    /\ SessionInit /\ MotionInit /\ MeterInit /\ LevelInit /\ DecayInit
    /\ ViewInit /\ BabyInit /\ SideInit
    /\ now = ClockStart
    /\ blockAt \in BlockCorners
    /\ asked \in BlockThresholds
    /\ blockSeen = NoBlockSeen

NextBlock ==
    \/ BlockSetThreshold
    \/ BlockFrame

SpecBlock == InitBlock /\ [][NextBlock]_vars

\* One pair of spectra per behaviour.
InitLevel ==
    /\ SessionInit /\ MotionInit /\ MeterInit /\ BlockInit /\ DecayInit
    /\ ViewInit /\ BabyInit /\ SideInit
    /\ now = ClockStart
    /\ spectrumA \in Spectra
    /\ spectrumB \in Spectra
    /\ levelSeen = NoLevelSeen

NextLevel == LevelPair

SpecLevel == InitLevel /\ [][NextLevel]_vars

----------------------------------------------------------------------------
(***************************************************************************)
(* The session's properties.                                               *)
(***************************************************************************)

OpenCalls == {c \in CallIds : callStatus[c] = "open"}

LivePeers == {p \in PeerIds : peerStatus[p] \in {"connecting", "open", "disconnected"}}

\* C1: at most one call handle placed by the session is non-closed at any
\* time: when attemptCall places a call, every call placed earlier is closed.
AtMostOneOpenCall == Cardinality(OpenCalls) <= 1

\* C2: at most one retry timer is pending at any time, whatever mix of call
\* close, call error, signaling disconnected and signaling error events
\* arrives.
AtMostOneRetryTimer == Cardinality(timers) <= 1

\* a call 'close' arrived while a retry timer was pending, and one is pending
SecondCloseRearmed ==
    /\ last.ev = "callClose"
    /\ last.hadTimer
    /\ ~isCleaningUp
    /\ Cardinality(timers) = 1

MinDelayValue == DoubleOfNat(minDelay)
MaxDelayValue == DoubleOfNat(minDelay + minDelay \div 2)

\* the signaling handle reported 'disconnected' while no call was connected
\* and cleanup had not run
DisconnectedWhileIdle ==
    /\ last.ev = "peerDisconnected"
    /\ ~last.wasConnected
    /\ ~isCleaningUp

\* C3, as amended: after 'disconnected' while no call is active exactly one
\* retry timer is pending, and its delay d = 5000 + random() * 0.5 * 5000,
\* computed in doubles, satisfies 5000 <= d <= 7500.
DisconnectedRetryDelayInRange ==
    DisconnectedWhileIdle =>
        \E t \in timers :
            /\ timers = {t}
            /\ LimbsLeq(MinDelayValue, t.delay)
            /\ LimbsLeq(t.delay, MaxDelayValue)

\* 'disconnected' while idle armed a timer with a delay strictly inside the range
DisconnectedRetryArmed ==
    /\ DisconnectedWhileIdle
    /\ \E t \in timers :
           LimbsLess(MinDelayValue, t.delay) /\ LimbsLess(t.delay, MaxDelayValue)

\* C3, as stated: the delay satisfies 5000 <= d < 7500 for every random().
DisconnectedRetryDelayBelowMax ==
    DisconnectedWhileIdle =>
        \E t \in timers :
            /\ timers = {t}
            /\ LimbsLeq(MinDelayValue, t.delay)
            /\ LimbsLess(t.delay, MaxDelayValue)

\* C4: once cleanup() has been called no later event arms a retry timer,
\* places a call, creates a signaling handle, or creates or starts an audio
\* analyzer, a motion analyzer or a decaying meter.
NothingCreatedAfterCleanup == lateEffects = {}

CallLost ==
    /\ ~isCleaningUp
    /\ ~isConnected
    /\ peer # NULL
    /\ \/ peerStatus[peer] \in {"disconnected", "destroyed"}
       \/ activeCall # NULL /\ callStatus[activeCall] = "closed"

\* the model has no identifier left for a further call
OutOfCallIds == \A c \in CallIds : callStatus[c] # "free"

\* C6: if the call is lost or the signaling handle is disconnected, and
\* cleanup is never called, then with retry timers that fire and a signaling
\* service that accepts connections the session eventually places a new call.
LostCallIsPlacedAgain == CallLost ~> (last.placed \/ isCleaningUp \/ OutOfCallIds)

\* a call 'close' or 'error', or a signaling 'disconnected' that arrived while
\* no call was connected, was handled before cleanup
CallLossHandled ==
    /\ ~isCleaningUp
    /\ \/ last.ev \in {"callClose", "callError"}
       \/ last.ev = "peerDisconnected" /\ ~last.wasConnected

\* C7, as amended: a call 'close' or 'error' in any session state, and a
\* signaling 'disconnected' while no call is connected, handled before
\* cleanup, leave a retry timer pending.
RetryPendingAfterCallLoss == CallLossHandled => timers # {}

\* a call 'error' arrived with no retry timer pending, and armed one
CallErrorArmedRetry ==
    /\ last.ev = "callError"
    /\ ~last.hadTimer
    /\ ~isCleaningUp
    /\ timers # {}

\* C7, as stated: every signaling 'disconnected', call 'close' and call
\* 'error' handled before cleanup leaves a retry timer pending.
RetryPendingAfterEveryFailure ==
    (~isCleaningUp /\ last.ev \in {"peerDisconnected", "callClose", "callError"})
        => timers # {}

(***************************************************************************)
(* The motion analyzer's properties.                                       *)
(***************************************************************************)

\* C8: any two onMotionAlert invocations of one analyzer are at least
\* alertCooldownMs apart, for any sequence of start, stop, setPaused,
\* setThreshold and animation frames.
MotionAlertsKeepCooldown == lastFrame.alerted => lastFrame.due

\* C9: on a frame that is scored (after stabilization, not paused, with a
\* previous frame) an alert fires if and only if the score exceeds the
\* threshold and the time since the recorded last alert is at least
\* alertCooldownMs, the time being exactly alertCooldownMs included.
MotionAlertIffOverAndRipe ==
    lastFrame.scored => (lastFrame.alerted <=> (lastFrame.over /\ lastFrame.ripe))

\* C14: before any call of setThreshold and after any sequence of calls
\* setThreshold(x) with x any number (of any magnitude and sign, infinite or
\* NaN) the stored threshold, which getThreshold() returns, is within
\* [0.01, 0.5].
ThresholdWithinRange == threshold # NaN /\ 1 <= threshold /\ threshold <= 50

\* C12: a scored frame (after stabilization, not paused, with a previous
\* frame) whose image is pixel for pixel the image of the frame processed
\* immediately before it has the motion score 0, whatever the image is.
IdenticalFramesScoreZero ==
    (lastFrame.scored /\ lastFrame.same) => lastFrame.score = 0

\* the argument of setThreshold is below the score of the frame scored
AskedBelowScore ==
    blockSeen.scored /\ asked * (GrayUnit \div 100) * FullWidth * FullHeight < blockSeen.score

\* C13: for two consecutive 160 x 120 frames of which the second differs
\* from the first only in a 10 x 10 block changed from black to white, the
\* motion score of the second frame is above 0, and with the threshold set
\* through setThreshold to a value below that score and the cooldown
\* elapsed, exactly one alert fires for that frame.
BlockChangeAlertsOnce ==
    (blockSeen.scored /\ blockSeen.elapsed > cfg.alertCooldownMs) =>
        /\ blockSeen.score > 0
        /\ AskedBelowScore => blockSeen.calls = <<"onMotionLevel", "onMotionAlert">>

(***************************************************************************)
(* The audio analyzer's properties.                                        *)
(***************************************************************************)

\* C10: a run of update invokes onAlert if and only if the analyzer is not
\* paused, the level is at least alertThreshold and the last onAlert is at
\* least alertCooldownMs ago or there was none; the time of the alert is then
\* recorded.
AudioAlertIffLoudAndDue ==
    lastUpdate.ran =>
        /\ lastUpdate.alerted <=> (~lastUpdate.paused /\ lastUpdate.loud /\ lastUpdate.due)
        /\ lastUpdate.alerted => (meterLastAlertTime = now /\ meterAlertedAt = now)

\* onAlert was invoked exactly alertCooldownMs after the alert before it
AudioAlertAtCooldown == lastUpdate.alerted /\ lastUpdate.exact

\* setPaused leaves the animation-frame loop as it is
SetPausedKeepsLoop ==
    (isPaused' # isPaused \/ pauseTrail' # pauseTrail) /\ ~lastUpdate'.ran
        => UNCHANGED <<meterQueue, meterAnimationId, meterState, meterStopped>>

\* C11: every run of update invokes onLevel (of an analyzer created with
\* one), whatever the threshold and the pause state; a run that meets a level
\* at or above the threshold while the analyzer is paused invokes onLevel and
\* no onAlert; setPaused(false) makes the next run alert again (when the
\* level and the cooldown allow it), and no setPaused restarts or changes the
\* loop.
OnLevelEveryTickAlertsFollowPause ==
    /\ []((lastUpdate.ran /\ onLevel) =>
            /\ lastUpdate.calls # <<>> /\ lastUpdate.calls[1] = "onLevel"
            /\ lastUpdate.paused => lastUpdate.calls = <<"onLevel">>
            /\ (lastUpdate.trail = "resumed" /\ lastUpdate.loud /\ lastUpdate.due)
                   => lastUpdate.calls = <<"onLevel", "onAlert">>)
    /\ [][SetPausedKeepsLoop]_vars

\* an update silenced by a pause, then setPaused(false), then an update that
\* alerts
AlertAfterResumedPause ==
    /\ lastUpdate.ran /\ onLevel /\ lastUpdate.trail = "resumed"
    /\ lastUpdate.calls = <<"onLevel", "onAlert">>

\* the sum of the squared magnitudes: the unweighted RMS of a is at most that
\* of b iff SquareSum(a, BinCount) <= SquareSum(b, BinCount)
RECURSIVE SquareSum(_, _)
SquareSum(data, n) == IF n = 0 THEN 0 ELSE data[n - 1] * data[n - 1] + SquareSum(data, n - 1)

RmsAtMost == SquareSum(spectrumA, BinCount) <= SquareSum(spectrumB, BinCount)

BinwiseAtMost == \A i \in Bins : spectrumA[i] <= spectrumB[i]

StopCancelsLoopForGood ==
    meterStopped => (~lastUpdate.ran /\ meterQueue = {})

\* C21: stop() is idempotent: the first call disconnects the source node and
\* closes the audio context, once each; a further call of stop() disconnects
\* and closes nothing more.
StopDisconnectsAndClosesOnce == sourceDisconnects <= 1 /\ contextCloses <= 1

(***************************************************************************)
(* Properties of both analyzers.                                           *)
(***************************************************************************)

\* the callbacks of the last tick are level, then alert
AudioLevelThenAlert == lastUpdate.calls = <<"onLevel", "onAlert">>
MotionLevelThenAlert == lastFrame.calls = <<"onMotionLevel", "onMotionAlert">>

\* C19 as stated: in a tick of either analyzer that delivers an alert
\* callback, a level callback is delivered too, and before the alert
\* callback.
AlertOnlyAfterLevelInTick ==
    /\ (lastUpdate.ran /\ lastUpdate.alerted) => AudioLevelThenAlert
    /\ lastFrame.alerted => MotionLevelThenAlert

\* C19, amended: in a tick of the motion analyzer, or of an audio analyzer
\* created with an onLevel callback, that delivers an alert callback, the
\* level callback is delivered before the alert callback; an audio analyzer
\* created without onLevel delivers the alert callback alone.
AlertAfterLevelWhereGiven ==
    /\ (lastUpdate.ran /\ lastUpdate.alerted) =>
           IF onLevel THEN AudioLevelThenAlert ELSE lastUpdate.calls = <<"onAlert">>
    /\ lastFrame.alerted => MotionLevelThenAlert
    /\ (lastUpdate.ran /\ ~lastUpdate.alerted) => lastUpdate.calls = onLevelCall(A)
    /\ ~lastFrame.alerted => lastFrame.calls \in {<<>>, <<"onMotionLevel">>}

\* a tick of the audio analyzer has delivered onLevel, then onAlert
AudioTickLevelThenAlert == lastUpdate.ran /\ lastUpdate.alerted /\ AudioLevelThenAlert

(***************************************************************************)
(* The decaying meter's properties.                                        *)
(***************************************************************************)

\* C16: update never moves the level downward: update(y) with y below the
\* level leaves the level where it is, in particular at x right after
\* update(x); a raising update sets the level to the new value at once; and
\* no background tick lowers the level before sustainPeriod has elapsed
\* since the update that raised it.
UpdateNeverLowersAndPeakIsSustained ==
    /\ lastDecay.op = "update" =>
           /\ ~Greater(lastDecay.before, currentLevel)
           /\ Greater(lastDecay.arg, lastDecay.before) => currentLevel = lastDecay.arg
           /\ ~Greater(lastDecay.arg, lastDecay.before) => currentLevel = lastDecay.before
    /\ (lastDecay.op = "tick" /\ raisedAt # NULL /\ now - raisedAt < SustainPeriod)
           => currentLevel = lastDecay.before

\* update(x) has raised the level to x and an update(y) with y < x at the same
\* instant has left it at x
LowerUpdateRightAfterPeak ==
    /\ lastDecay.op = "update" /\ raisedAt = now
    /\ lastDecay.before = peak /\ peak > 0
    /\ Greater(lastDecay.before, lastDecay.arg)
    /\ currentLevel = peak

\* C17: a background tick leaves the level unchanged while less than
\* sustainPeriod has elapsed since the last peak; otherwise it lowers the
\* level by tickPeriod / decayResistance, but not below 0.  The level is
\* therefore the peak less that much for every tick past the sustain period,
\* or 0: a level of 1 is at 0 once these ticks span decayResistance
\* milliseconds, and between raising updates the level never rises.
TickHoldsThenDecaysLinearly ==
    /\ lastDecay.op = "tick" =>
           IF raisedAt # NULL /\ now - raisedAt < SustainPeriod
           THEN currentLevel = lastDecay.before
           ELSE currentLevel = Max(0, lastDecay.before - TickPeriod)
    /\ currentLevel = Max(0, peak - decayTicks * TickPeriod)
    /\ (peak = DecayResistance /\ decayTicks * TickPeriod >= DecayResistance)
           => currentLevel = 0

\* a full-scale level has reached 0 by the tick that completes decayResistance
\* milliseconds of ticks
FullScaleDecayedToZero ==
    /\ lastDecay.op = "tick" /\ ~lastDecay.held
    /\ peak = DecayResistance
    /\ lastDecay.before > 0 /\ currentLevel = 0
    /\ decayTicks * TickPeriod >= DecayResistance
    /\ (decayTicks - 1) * TickPeriod < DecayResistance

\* C18: after any sequence of update(level) calls, for any number passed, and
\* background ticks the meter's current level is within [0, 1].
DecayLevelWithinUnit ==
    currentLevel # NaN /\ 0 <= currentLevel /\ currentLevel <= DecayResistance

\* C22: stop() cancels the background timer and is idempotent: once stop()
\* was called the timer is cleared, no background tick runs, and a further
\* stop() clears nothing again.
DecayStopCancelsTimerOnce ==
    decayStops >= 1 =>
        /\ ~timerLive /\ intervalId = NULL
        /\ timerClears = 1
        /\ lastDecay.op # "tick"

\* stop() was called a second time, the level still up
SecondDecayStop == decayStops = 2 /\ currentLevel > 0

----------------------------------------------------------------------------
\* C23: cleanup() is idempotent: called a second time right after a first
\* call, from whatever state the first call was made in, it closes, destroys
\* or stops nothing and leaves every variable of the session as it was.
SecondCleanupChangesNothing ==
    [][(last.ev = "cleanup" /\ last'.ev = "cleanup") => S' = S]_vars

\* cleanup() was called twice in a row, and the session had been set up
\* (a call placed, an inbound stream bound) before the first call
CleanedUpTwice ==
    /\ last.ev = "cleanup"
    /\ last.again
    /\ playsFromStream + playsFromTap > 0

----------------------------------------------------------------------------
LiveStations == {i \in StationIds : stations[i].status = "live"}

\* C24: at most one station that has not been cleaned up exists per view,
\* for every interleaving of renderStation invocations, including one that
\* starts while an earlier station's initialisation is pending: every
\* superseded station has had its cleanup() called, and the only live
\* station is the one whose handle the page holds.
AtMostOneLiveStation ==
    /\ Cardinality(LiveStations) <= 1
    /\ \A i \in LiveStations : currentCleanup = i

----------------------------------------------------------------------------
\* C25: on the answering station an inbound call that arrives while another
\* call is held closes the earlier call before it becomes the active call,
\* so that the station holds at most one call that is not closed; a 'close'
\* or 'error' event of a superseded call that arrives afterwards neither
\* clears nor replaces the newer active call.
NewCallSupersedesAndStays ==
    /\ babyLast.ev = "call" =>
           /\ babyActiveCall = babyLast.call
           /\ babyLast.held # NULL => babyCalls[babyLast.held].status = "closed"
    /\ \A c \in BabyCallIds : babyCalls[c].superseded => babyCalls[c].status = "closed"
    /\ (babyLast.ev \in {"close", "error"} /\ babyCalls[babyLast.call].superseded)
           => babyActiveCall = babyLast.held

\* an 'error' event of a superseded call arrived while a newer call was held
SupersededCallErroredLate ==
    /\ babyLast.ev = "error"
    /\ babyCalls[babyLast.call].superseded
    /\ babyLast.held # NULL
    /\ babyActiveCall = babyLast.held
    /\ babyCalls[babyActiveCall].status = "open"

----------------------------------------------------------------------------
\* C26: when the active call is lost (call 'close' or 'error') the session
\* stops the audio and motion analyzers bound to the lost stream and the
\* tracks of the placeholder stream in that transition: with the retry
\* pending and no call left open, no analyzer is running and no placeholder
\* track is live.
CallLossStopsAnalyzersAndPlaceholder ==
    (last.ev \in {"callClose", "callError"} /\ ~isCleaningUp /\ OpenCalls = {}
        /\ timers # {})
        => /\ audioRunning = {}
           /\ motionRunning = {}
           /\ dummyLive = {}

----------------------------------------------------------------------------
----------------------------------------------------------------------------
\* C28: the session owns at most one live placeholder stream and one open
\* placeholder audio context at any time: every call attempt that places a
\* call creates a fresh placeholder stream for it, after the tracks of the
\* previous one were stopped and its audio context closed; no placeholder
\* serves a second call.
AtMostOnePlaceholder ==
    /\ Cardinality(dummyLive) <= 1
    /\ Cardinality(ctxOpen) <= 1
    /\ last.placed => /\ last.created
                      /\ dummyStream # NULL /\ dummyLive = {dummyStream}
                      /\ dummyAudioCtx # NULL /\ ctxOpen = {dummyAudioCtx}

\* the retry timer placed a call, with a fresh placeholder, while the call
\* placed before it (with the placeholder before it) was connected
PlaceholderRenewedForRetry ==
    /\ last.ev = "retryTimer"
    /\ last.wasConnected
    /\ last.placed
    /\ last.created
    /\ Cardinality(dummyLive) = 1

----------------------------------------------------------------------------
\* the step is a firing of the retry timer
RetryTimerStep == last'.ev = "retryTimer"

HandleGone == peer = NULL \/ peerStatus[peer] = "destroyed"

\* the active call is open and was placed on the signaling handle held, which is open
PlacedOnOpenHandle ==
    /\ peer # NULL /\ peerStatus[peer] = "open"
    /\ activeCall # NULL /\ callStatus[activeCall] = "open"
    /\ callPeer[activeCall] = peer

----------------------------------------------------------------------------
----------------------------------------------------------------------------
\* C31: with frameSkip = N a running motion analyzer processes exactly one
\* animation tick out of every N consecutive ticks and ignores the others:
\* a tick is processed if and only if it is the Nth tick after the last
\* processed one (after start(), for the first).
OneTickInFrameSkipProcessed ==
    lastFrame.ticked => (lastFrame.passed <=> lastFrame.nth = cfg.frameSkip)

\* C32: after start(), for the first stabilizationFrames processed frames
\* the motion analyzer emits level 0 and raises no alert whatever the frame
\* shows, only recording the frame as the previous frame; the first score
\* is computed on processed frame number stabilizationFrames + 1.
StabilizationFramesOnlyRecorded ==
    /\ (lastFrame.counted /\ framesSince <= cfg.stabilizationFrames) =>
           /\ lastFrame.calls = <<"onMotionLevel">>
           /\ ~lastFrame.scored /\ lastFrame.score = 0 /\ ~lastFrame.alerted
           /\ previousFrameData = toBytes(toGrayscale(previousImage))
    /\ (lastFrame.counted /\ ~pausedSince /\ framesSince = cfg.stabilizationFrames + 1) =>
           lastFrame.scored

\* the first frame after the stabilization frames of a start() was scored,
\* and showed a change over the threshold
FirstScoredFrameAfterStart ==
    /\ lastFrame.counted
    /\ ~pausedSince
    /\ framesSince = cfg.stabilizationFrames + 1
    /\ lastFrame.scored
    /\ lastFrame.over

\* C33: setPaused(true) discards the stored previous frame and resets the
\* stabilization counter while the loop keeps running; while the analyzer is
\* paused no level and no alert is emitted; after setPaused(false) no alert
\* fires until stabilizationFrames further frames have been processed, and
\* no frame is compared with a frame from before the pause.
PauseDropsBaselineAndRestabilizes ==
    /\ motionSetPaused(M, TRUE).previousFrameData = NoFrame
    /\ motionSetPaused(M, TRUE).frameCount = 0
    /\ motionSetPaused(M, TRUE).isRunning = isRunning
    /\ motionSetPaused(M, TRUE).rafQueue = rafQueue
    /\ motionSetPaused(M, TRUE).animationId = animationId
    /\ (lastFrame.ticked /\ paused) => lastFrame.calls = <<>>
    /\ lastFrame.alerted => framesSince > cfg.stabilizationFrames
    /\ lastFrame.scored => (framesSince > cfg.stabilizationFrames /\ framesSince > 1)

\* an alert fired after a pause that was resumed, on a frame compared with
\* a frame from after the pause
AlertAfterMotionPauseResumed ==
    /\ lastFrame.alerted
    /\ pausedSince
    /\ ~paused
    /\ framesSince = cfg.stabilizationFrames + 1

\* C34: when the current frame buffer has another size than the stored
\* previous buffer, the tick yields the motion score 0 (level 0, no alert)
\* without failing, and the sampling loop keeps running.
SizeMismatchScoresZero ==
    lastFrame.mismatch =>
        /\ lastFrame.scored /\ lastFrame.score = 0
        /\ lastFrame.calls = <<"onMotionLevel">>
        /\ ~lastFrame.alerted
        /\ isRunning /\ animationId # NULL /\ animationId \in rafQueue
        /\ previousFrameData = toBytes(toGrayscale(previousImage))

\* a frame with a white dot was compared with a stored buffer of another size
DotFrameAgainstOddBuffer ==
    /\ lastFrame.mismatch
    /\ previousImage = FrameDot

\* C35: the audio analyzer stores a threshold clamped to the valid level
\* range [0, 1]: the stored alertThreshold (in hundredths) is never outside
\* 0..100, whatever setThreshold or the alertThreshold option was given.
StoredAudioThresholdInRange ==
    0 <= alertThreshold /\ alertThreshold <= 100

\* C36: when the baby station's media acquisition fails, the failure is
\* shown as a status message, no Peer is created and no call is answered,
\* getUserMedia is called again only when the user picks a device, and the
\* cleanup of the returned handle runs to its end.
BabyStatusErrors ==
    {"Error accessing camera/mic", "Error switching device"}

MediaFailureIsFinalAndReported ==
    mediaFailed =>
        /\ babyPhase = "failed"
        /\ babyStatus \in BabyStatusErrors
        /\ babyPeer = "none"
        /\ \A c \in BabyCallIds : babyCalls[c].status = "free"
        /\ babyActiveCall = NULL
        /\ mediaRequests = 1 + switchRequests
        /\ (babyLast.ev = "cleanup" =>
                babyCleaned /\ ~deviceChangeHandler /\ babyStream = "none")

\* the media were refused and the handle's cleanup has run
CleanedUpAfterMediaFailure ==
    /\ mediaFailed
    /\ babyLast.ev = "cleanup"

\* C37: once release() has run to its end and no request is in flight, the
\* 'visibilitychange' listener is removed, the handle has released the
\* sentinel acquired last once (unless the browser had released it already)
\* and no other sentinel, no visibility change after release() has made a
\* request, and no sentinel is still held.
ReleaseReleasesLatestSentinelOnce ==
    (releasePhase = "done" /\ wakeRequests = 0) =>
        /\ ~visibilityListener
        /\ lateRequests = 0
        /\ \A i \in SentinelIds :
               /\ i # latestSentinel => sentinels[i].handleReleases = 0
               /\ sentinels[i].handleReleases <= 1
        /\ sentinels[latestSentinel].state = "released"

\* C38: isConnected is true exactly when the call held in activeCall has
\* delivered a stream and has not since closed or errored; a 'close' or
\* 'error' of another call leaves the flag set while the call held delivers.
IsConnectedFollowsActiveCall ==
    /\ isConnected <=> delivering
    /\ last.stale => isConnected

\* C39: while a channel's pause control is checked no alert of that channel
\* is shown, also after an analyzer was created anew; and a change of one
\* channel's pause control leaves the other channel's analyzer as it was.
PauseSurvivesNewAnalyzers ==
    /\ panelLast.ev = "cryingAlert" => ~pauseCryingChecked
    /\ panelLast.ev = "squirmingAlert" => ~pauseSquirmingChecked
    /\ panelLast.ev = "pauseCrying" => squirmingAnalyzer = panelLast.squirmingWas
    /\ panelLast.ev = "pauseSquirming" => cryingAnalyzer = panelLast.cryingWas

\* C40: the video-alert highlight is present exactly when a toast is
\* visible; each channel has at most one pending dismiss timer; and a toast
\* that is visible has its timer pending, due ToastMs after the channel's
\* last alert.
HighlightFollowsToasts ==
    /\ videoAlert <=> (cryingToastVisible \/ squirmingToastVisible)
    /\ Cardinality(cryingTimers) <= 1
    /\ Cardinality(squirmingTimers) <= 1
    /\ cryingToastVisible => cryingTimers = {cryingAlertAt + ToastMs}
    /\ squirmingToastVisible => squirmingTimers = {squirmingAlertAt + ToastMs}

====
